---------------------------- MODULE Spec2Model ----------------------------
(***************************************************************************)
(* State-machine model of the integer light-field disparity pipeline       *)
(* (src/Python): the IMGB container codec, the biased Q12.12 fixed-point   *)
(* helpers, the box sum, the confidence estimator, the disparity           *)
(* estimator and the fusion.  Two integer-only variants are modelled side  *)
(* by side: No_Libraries (prefix NL_) and Bit_Manipulation (prefix BM_).   *)
(*                                                                         *)
(* Every component has one state variable holding a record: the arguments  *)
(* a call was given and the results the calls made so far returned.  Each  *)
(* component has a specification of its own (SpecCodec, SpecFixed, ...);   *)
(* the components a specification does not exercise stay Idle.             *)
(*                                                                         *)
(* Python integers are unbounded; the inputs are chosen so that every      *)
(* intermediate value fits the model checker's 32-bit integers.            *)
(***************************************************************************)
EXTENDS Integers, Sequences, FiniteSets, TLC

VARIABLES codec, fx, box, est, fuse, fixq, cross, epis, units

vars == <<codec, fx, box, est, fuse, fixq, cross, epis, units>>

\* A component that takes no part in the specification being checked.
Idle == [pc |-> "idle"]

(***************************************************************************)
(* Results of Python calls: a returned value or a raised exception.        *)
(***************************************************************************)
Ret(v) == [exc |-> "none", val |-> v]

Raise(e) == [exc |-> e, val |-> <<>>]

NoCall == [exc |-> "nocall", val |-> <<>>]

(***************************************************************************)
(* utils.py : constants                                                    *)
(***************************************************************************)
MAGIC == <<73, 77, 71, 66>>          \* b"IMGB"

Q_FRAC == 12

Q_SCALE == 4096

BIAS_INT == 8388608

U24_MAX == 16777215

\* Image geometry of the Bit_Manipulation variant.  The source compiles in
\* WH_SHIFT = 9 (512 x 512 images); the model keeps the code's shift and
\* offset arithmetic and runs it on a 2^WH_SHIFT square image.
WH_SHIFT == 2

WH_SIZE == 2 ^ WH_SHIFT              \* 1 << WH_SHIFT

EPI_UV == 9

(***************************************************************************)
(* Python integer operators on the values the code applies them to.        *)
(***************************************************************************)
Shl(x, k) == x * (2 ^ k)             \* x << k

Shr1(x) == x \div 2                  \* x >> 1

Shl12(x) == x * 4096                 \* x << Q_FRAC

Shr12(x) == x \div 4096              \* x >> Q_FRAC (floor, as Python)

Shl11(x) == x * 2048                 \* x << (Q_FRAC - 1)

AndFF(x) == x % 256                  \* x & 0xFF

Min(a, b) == IF a < b THEN a ELSE b

Max(a, b) == IF a > b THEN a ELSE b

(***************************************************************************)
(* utils.py : IMGB container                                               *)
(***************************************************************************)
\* int.to_bytes(4, "little")
to_bytes4(n) == << n % 256, (n \div 256) % 256, (n \div 65536) % 256,
                   (n \div 16777216) % 256 >>

\* b[off:off+n] with Python's slice clipping; off is 0-based
Slice(b, off, n) == SubSeq(b, off + 1, Min(off + n, Len(b)))

\* int.from_bytes(b[off:off+4], "little")
u32_le(b, off) ==
    LET s == Slice(b, off, 4)
        at(i) == IF i <= Len(s) THEN s[i] ELSE 0
    IN  at(1) + 256 * at(2) + 65536 * at(3) + 16777216 * at(4)

\* No_Libraries: raises ValueError on an unsupported code (modelled as 0 and
\* tested by the callers); Bit_Manipulation returns None there.
bytes_per_sample(dtype_code) ==
    IF dtype_code = 1 THEN 1
    ELSE IF dtype_code = 2 THEN 2
    ELSE IF dtype_code = 3 THEN 4
    ELSE IF dtype_code = 4 THEN 3
    ELSE 0

SupportedDtype(dtype_code) == dtype_code \in 1..4

header_height_first(W, H, C, dtype_code) ==
    MAGIC \o to_bytes4(H) \o to_bytes4(W) \o <<AndFF(C), AndFF(dtype_code)>>
          \o <<0, 0>>

header(W, H, C, dtype_code) ==
    MAGIC \o to_bytes4(W) \o to_bytes4(H) \o <<AndFF(C), AndFF(dtype_code)>>
          \o <<0, 0>>

NL_imgb_make(W, H, C, dtype_code, payload) ==
    IF ~SupportedDtype(dtype_code) THEN Raise("ValueError")
    ELSE IF Len(payload) # W * H * C * bytes_per_sample(dtype_code)
         THEN Raise("ValueError")
    ELSE Ret(header(W, H, C, dtype_code) \o payload)

BM_imgb_make(W, H, C, dtype_code, payload) ==
    Ret(header(W, H, C, dtype_code) \o payload)

NL_imgb_parse(buf) ==
    IF Len(buf) < 16 THEN Raise("ValueError")
    ELSE IF SubSeq(buf, 1, 4) # MAGIC THEN Raise("ValueError")
    ELSE LET W == u32_le(buf, 4)
             H == u32_le(buf, 8)
             C == buf[13]
             dtype_code == buf[14]
             payload == SubSeq(buf, 17, Len(buf))
         IN  IF ~SupportedDtype(dtype_code) THEN Raise("ValueError")
             ELSE IF Len(payload) # W * H * C * bytes_per_sample(dtype_code)
                  THEN Raise("ValueError")
             ELSE Ret(<<W, H, C, dtype_code, payload>>)

BM_imgb_parse(buf) ==
    IF Len(buf) < 14 THEN Raise("IndexError")     \* buf[12], buf[13]
    ELSE Ret(<<u32_le(buf, 4), u32_le(buf, 8), buf[13], buf[14],
               SubSeq(buf, 17, Len(buf))>>)

\* buf[16:]
imbg_parse_payload(buf) == SubSeq(buf, 17, Len(buf))

(***************************************************************************)
(* Container codec: the calls and the buffers between them                 *)
(***************************************************************************)
MaxDim == 2          \* widths and heights 0..MaxDim, plus one wide frame

WideDim == 258       \* a width whose little-endian form needs two bytes

MaxSeed == 1         \* payload patterns 0..MaxSeed

PayloadOf(n, seed) == [i \in 1..n |-> (101 * seed + 37 * i) % 256]

Variants == {"NL", "BM"}

Tampers == {"magic", "short", "long", "cut"}

Tampered(buf, how) ==
    IF how = "magic" THEN <<88>> \o SubSeq(buf, 2, Len(buf))
    ELSE IF how = "short" THEN SubSeq(buf, 1, Len(buf) - 1)
    ELSE IF how = "long" THEN buf \o <<0>>
    ELSE SubSeq(buf, 1, 8)

CodecInit ==
    \E w \in (0..MaxDim) \cup {WideDim}, h \in 0..MaxDim, c \in {1, 3, 4},
       e \in 0..5, s \in 0..MaxSeed, delta \in {-1, 0, 1} :
        LET n == w * h * c * bytes_per_sample(e) + delta
        IN  /\ n >= 0
            /\ (w = WideDim => h = 1 /\ c = 1)
            /\ codec = [pc |-> "args", W |-> w, H |-> h, C |-> c,
                        dtype_code |-> e, payload |-> PayloadOf(n, s),
                        made_by |-> "none", buf |-> NoCall,
                        tamper |-> "none", parsed_by |-> "none",
                        out |-> NoCall, view |-> <<>>]

Make(v) ==
    /\ codec.pc = "args"
    /\ LET r == IF v = "NL"
                THEN NL_imgb_make(codec.W, codec.H, codec.C, codec.dtype_code,
                                  codec.payload)
                ELSE BM_imgb_make(codec.W, codec.H, codec.C, codec.dtype_code,
                                  codec.payload)
       IN  codec' = [codec EXCEPT !.pc = "made", !.made_by = v, !.buf = r]
    /\ UNCHANGED <<fx, box, est, fuse, fixq, cross, epis, units>>

\* A file on disk is not under the codec's control: the bytes handed to
\* imgb_parse may differ from the bytes imgb_make produced.
Tamper(how) ==
    /\ codec.pc = "made"
    /\ codec.buf.exc = "none"
    /\ codec.tamper = "none"
    /\ codec' = [codec EXCEPT !.tamper = how,
                              !.buf = Ret(Tampered(codec.buf.val, how))]
    /\ UNCHANGED <<fx, box, est, fuse, fixq, cross, epis, units>>

Parse(v) ==
    /\ codec.pc = "made"
    /\ codec.buf.exc = "none"
    /\ codec' = [codec EXCEPT !.pc = "parsed", !.parsed_by = v,
                   !.out = IF v = "NL" THEN NL_imgb_parse(codec.buf.val)
                           ELSE BM_imgb_parse(codec.buf.val),
                   !.view = imbg_parse_payload(codec.buf.val)]
    /\ UNCHANGED <<fx, box, est, fuse, fixq, cross, epis, units>>

MakeNL == Make("NL")

MakeBM == Make("BM")

ParseNL == Parse("NL")

ParseBM == Parse("BM")

TamperBuf == \E how \in Tampers : Tamper(how)

InitCodec ==
    /\ CodecInit
    /\ fx = Idle /\ box = Idle /\ est = Idle /\ fuse = Idle
    /\ fixq = Idle /\ cross = Idle /\ epis = Idle /\ units = Idle

NextCodec == MakeNL \/ MakeBM \/ TamperBuf \/ ParseNL \/ ParseBM

SpecCodec == InitCodec /\ [][NextCodec]_vars

(***************************************************************************)
(* Container codec: properties                                             *)
(***************************************************************************)
ExpectedSize == codec.W * codec.H * codec.C * bytes_per_sample(codec.dtype_code)

ValidArgs ==
    /\ codec.C \in {1, 3, 4}
    /\ SupportedDtype(codec.dtype_code)
    /\ Len(codec.payload) = ExpectedSize

\* C1: for valid geometry, encoding and payload, imgb_make succeeds,
\* imgb_parse of the made buffer returns exactly (W, H, C, dtype_code,
\* payload), and the payload view buf[16:] of the made buffer is the payload
\* (whichever variant makes and whichever variant parses).
C1_RoundTrip ==
    /\ (codec.pc # "args" /\ ValidArgs /\ codec.tamper = "none")
          => codec.buf.exc = "none"
    /\ (codec.pc = "parsed" /\ ValidArgs /\ codec.tamper = "none")
          => /\ codec.out = Ret(<<codec.W, codec.H, codec.C, codec.dtype_code,
                                  codec.payload>>)
             /\ codec.view = codec.payload

C1_Witness ==
    /\ codec.pc = "parsed" /\ ValidArgs /\ codec.tamper = "none"
    /\ codec.W = WideDim /\ codec.dtype_code = 4 /\ codec.parsed_by = "NL"
    /\ Len(codec.payload) > 0

BadMagic(buf) == Len(buf) >= 4 /\ SubSeq(buf, 1, 4) # MAGIC

SizeMismatch(buf) ==
    /\ Len(buf) >= 16
    /\ SupportedDtype(buf[14])
    /\ Len(buf) - 16 #
         u32_le(buf, 4) * u32_le(buf, 8) * buf[13] * bytes_per_sample(buf[14])

\* C2: in every variant imgb_parse raises, returning nothing, for a buffer
\* whose first four bytes are not "IMGB" and for a buffer whose payload
\* length differs from W*H*C*bytes_per_sample(dtype_code) of its header.
C2_ParseRejects ==
    (codec.pc = "parsed"
       /\ (BadMagic(codec.buf.val) \/ SizeMismatch(codec.buf.val)))
      => codec.out.exc # "none"

\* C3: in every variant imgb_make raises, producing no buffer, whenever
\* len(payload) # W*H*C*bytes_per_sample(dtype_code).
C3_MakeRejects ==
    (codec.pc = "made" /\ codec.tamper = "none"
       /\ SupportedDtype(codec.dtype_code)
       /\ Len(codec.payload) # ExpectedSize)
      => codec.buf.exc # "none"

(***************************************************************************)
(* Fixed-point helpers: u24 packing, saturating bias, rounding halving     *)
(* (disparity.py and confidence.py each carry their own copies)            *)
(***************************************************************************)
\* p[o] | (p[o+1] << 8) | (p[o+2] << 16); o is a 0-based byte offset
u24_read(p, o) == p[o + 1] + 256 * p[o + 2] + 65536 * p[o + 3]

\* the three bytes _u24_write stores for u: u &= U24_MAX, then byte by byte
u24_bytes(u) ==
    LET v == u % 16777216
    IN  << v % 256, (v \div 256) % 256, (v \div 65536) % 256 >>

u24_write(out, o, u) ==
    [out EXCEPT ![o + 1] = u24_bytes(u)[1], ![o + 2] = u24_bytes(u)[2],
                ![o + 3] = u24_bytes(u)[3]]

BM_disp_bias_q_wrapping(q) == q + BIAS_INT

BM_disp_bias_q(q) ==
    LET u == q + BIAS_INT
    IN  IF u < 0 THEN 0 ELSE IF u > U24_MAX THEN U24_MAX ELSE u

BM_conf_bias_from_q12_12_wrapping(q) == (q + BIAS_INT) % (U24_MAX + 1)

BM_conf_bias_from_q12_12(q) ==
    LET u == q + BIAS_INT
    IN  IF u < 0 THEN 0 ELSE IF u > U24_MAX THEN U24_MAX ELSE u

NL_conf_bias_from_q12_12(q) ==
    LET u == q + BIAS_INT
    IN  IF u < 0 THEN 0 ELSE IF u > 16777215 THEN 16777215 ELSE u

abs_i32(x) == IF x < 0 THEN -x ELSE x

BM_conf_round_div2_floor(x) == Shr1(x + 1)

BM_conf_round_div2(x) == IF x >= 0 THEN Shr1(x + 1) ELSE -Shr1((-x) + 1)

NL_conf_round_div2(x) == IF x >= 0 THEN Shr1(x + 1) ELSE -Shr1((-x) + 1)

BM_disp_round_div2(x) == IF x >= 0 THEN Shr1(x + 1) ELSE -Shr1((-x) + 1)

(***************************************************************************)
(* Fixed-point helpers: the calls                                          *)
(***************************************************************************)
FxSpan == 4          \* sample values within FxSpan of each centre

FxCentres == {-25165824, -16777216, -8388608, 0, 8388607, 16777215, 25165824}

FxSamples == UNION { (c - FxSpan)..(c + FxSpan) : c \in FxCentres }

FxInit ==
    \E q \in FxSamples :
        fx = [pc |-> "args", q |-> q, by |-> "none", out |-> <<0, 0, 0>>,
              back |-> 0, r |-> 0, rneg |-> 0]

\* bias the signed value and store it as one packed sample
Store(h) ==
    /\ fx.pc = "args"
    /\ LET u == IF h = "disparity" THEN BM_disp_bias_q(fx.q)
                ELSE BM_conf_bias_from_q12_12(fx.q)
       IN  fx' = [fx EXCEPT !.pc = "stored", !.by = h,
                            !.out = u24_write(fx.out, 0, u)]
    /\ UNCHANGED <<codec, box, est, fuse, fixq, cross, epis, units>>

\* read the sample back and remove the bias
ReadBack ==
    /\ fx.pc = "stored"
    /\ fx' = [fx EXCEPT !.pc = "read", !.back = u24_read(fx.out, 0) - BIAS_INT]
    /\ UNCHANGED <<codec, box, est, fuse, fixq, cross, epis, units>>

\* halve the value and its negation
RoundDiv2(v) ==
    /\ fx.pc = "args"
    /\ fx' = [fx EXCEPT !.pc = "rounded", !.by = v,
                !.r = IF v = "BM" THEN BM_conf_round_div2(fx.q)
                      ELSE NL_conf_round_div2(fx.q),
                !.rneg = IF v = "BM" THEN BM_conf_round_div2(-fx.q)
                         ELSE NL_conf_round_div2(-fx.q)]
    /\ UNCHANGED <<codec, box, est, fuse, fixq, cross, epis, units>>

StoreDisparity == Store("disparity")

StoreConfidence == Store("confidence")

RoundDiv2BM == RoundDiv2("BM")

RoundDiv2NL == RoundDiv2("NL")

InitFixed ==
    /\ FxInit
    /\ codec = Idle /\ box = Idle /\ est = Idle /\ fuse = Idle
    /\ fixq = Idle /\ cross = Idle /\ epis = Idle /\ units = Idle

NextFixed ==
    StoreDisparity \/ StoreConfidence \/ ReadBack \/ RoundDiv2BM \/ RoundDiv2NL

SpecFixed == InitFixed /\ [][NextFixed]_vars

(***************************************************************************)
(* Fixed-point helpers: properties                                         *)
(***************************************************************************)
Clamp(x, lo, hi) == Max(lo, Min(hi, x))

StoredSample == fx.out[1] + 256 * fx.out[2] + 65536 * fx.out[3]

\* C4: the stored 24-bit sample is clamp(q + 8388608, 0, 16777215): a value
\* below -8388608 stores 0, one above 8388607 stores 16777215, an in-range
\* value reads back exactly, and nothing wraps modulo 2^24.
C4_SaturatingBias ==
    /\ fx.pc \in {"stored", "read"}
         => /\ StoredSample = Clamp(fx.q + 8388608, 0, 16777215)
            /\ (fx.q < -8388608 => fx.out = <<0, 0, 0>>)
            /\ (fx.q > 8388607 => fx.out = <<255, 255, 255>>)
    /\ (fx.pc = "read" /\ fx.q \in -8388608..8388607) => fx.back = fx.q

C4_Witness ==
    /\ fx.pc = "read" /\ fx.by = "disparity"
    /\ fx.q > 16777215 /\ fx.back = 8388607

\* n = ceil(m / 2): n is the least integer with 2n >= m
IsCeilHalf(n, m) == 2 * n >= m /\ 2 * (n - 1) < m

\* C5: _round_div2 rounds x/2 to nearest with ties away from zero, that is
\* sign(x) * ceil(|x| / 2), and is odd: _round_div2(x) = -_round_div2(-x).
C5_RoundSymmetry ==
    fx.pc = "rounded"
      => /\ (fx.q >= 0 => IsCeilHalf(fx.r, fx.q))
         /\ (fx.q < 0 => IsCeilHalf(-fx.r, -fx.q))
         /\ fx.r = -fx.rneg

C5_Witness == fx.pc = "rounded" /\ fx.q = -3 /\ fx.r = -2 /\ fx.rneg = 2

(***************************************************************************)
(* disparity.py : box sum over a 2D plane by an integral image             *)
(*                                                                         *)
(* A plane is a sequence of A rows of W integers.  Python's 0-based        *)
(* plane[a][x] is plane[a + 1][x + 1] here; window bounds a0, a1, x0, x1   *)
(* keep their 0-based values.                                              *)
(***************************************************************************)
\* a list built element by element, held as an evaluated sequence
Tab(s) == SubSeq(s, 1, Len(s))

RECURSIVE RowPrefix(_, _)
\* row_sum after adding prow[0] .. prow[x - 1]
RowPrefix(prow, x) == IF x = 0 THEN 0 ELSE RowPrefix(prow, x - 1) + prow[x]

RECURSIVE BM_integ(_, _, _)
\* rows 0 .. a of integ (W0 + 1 entries each), after the fill loop
BM_integ(plane, a, W0) ==
    IF a = 0 THEN << [x \in 1..(W0 + 1) |-> 0] >>
    ELSE LET prev == BM_integ(plane, a - 1, W0)
             ia0 == prev[a]
             ia1 == Tab([x \in 1..(W0 + 1) |->
                          IF x = 1 THEN 0
                          ELSE ia0[x] + RowPrefix(plane[a], x - 1)])
         IN  Append(prev, ia1)

BM_clamp_hi_wrapping(i, n) == i % n

\* if a1 >= A0: a1 = A0 - 1
BM_clamp_hi(i, n) == IF i >= n THEN n - 1 ELSE i

\* if a0 < 0: a0 = 0
BM_clamp_lo(i) == IF i < 0 THEN 0 ELSE i

BM_box_sum_2d_int(plane, win) ==
    IF win <= 1 THEN plane
    ELSE LET r == Shr1(win)
             A0 == Len(plane)
         IN  IF A0 <= 0 THEN plane
             ELSE LET W0 == Len(plane[1])
                      integ == BM_integ(plane, A0, W0)
                  IN  Tab([a \in 1..A0 |->
                        LET a0 == BM_clamp_lo((a - 1) - r)
                            a1 == BM_clamp_hi((a - 1) + r, A0)
                            ia0 == integ[a0 + 1]
                            ia1 == integ[a1 + 2]
                        IN  Tab([x \in 1..W0 |->
                              LET x0 == BM_clamp_lo((x - 1) - r)
                                  x1 == BM_clamp_hi((x - 1) + r, W0)
                              IN  ia1[x1 + 2] - ia0[x1 + 2] - ia1[x0 + 1]
                                    + ia0[x0 + 1]])])

RECURSIVE NL_integ(_, _, _)
NL_integ(plane, a, W) ==
    IF a = 0 THEN << [x \in 1..(W + 1) |-> 0] >>
    ELSE LET prev == NL_integ(plane, a - 1, W)
             ia0 == prev[a]
             ia1 == Tab([x \in 1..(W + 1) |->
                          IF x = 1 THEN 0
                          ELSE ia0[x] + RowPrefix(plane[a], x - 1)])
         IN  Append(prev, ia1)

NL_box_sum_2d_int(plane, win) ==
    IF win <= 1 THEN plane
    ELSE LET r == win \div 2
             A == Len(plane)
             W == IF A > 0 THEN Len(plane[1]) ELSE 0
             integ == NL_integ(plane, A, W)
         IN  Tab([a \in 1..A |->
               LET a0 == IF (a - 1) - r < 0 THEN 0 ELSE (a - 1) - r
                   a1 == IF (a - 1) + r >= A THEN A - 1 ELSE (a - 1) + r
                   ia0 == integ[a0 + 1]
                   ia1 == integ[a1 + 2]
               IN  Tab([x \in 1..W |->
                     LET x0 == IF (x - 1) - r < 0 THEN 0 ELSE (x - 1) - r
                         x1 == IF (x - 1) + r >= W THEN W - 1 ELSE (x - 1) + r
                     IN  ia1[x1 + 2] - ia0[x1 + 2] - ia1[x0 + 1]
                           + ia0[x0 + 1]])])

(***************************************************************************)
(* Box sum: the calls                                                      *)
(***************************************************************************)
MaxBoxDim == 3       \* planes of up to MaxBoxDim rows and columns

BoxRowVals == {-1, 0, 2}

BoxColVals == {0, 1}

\* plane[a][x] = rv[a] * cv[x]: every single-entry plane and sums of them
BoxPlanes ==
    {<<>>} \cup
    UNION { { [a \in 1..A |-> [x \in 1..W |-> rv[a] * cv[x]]] :
                rv \in [1..A -> BoxRowVals], cv \in [1..W -> BoxColVals] } :
            A \in 1..MaxBoxDim, W \in 1..MaxBoxDim }

BoxWins == 1..(2 * MaxBoxDim + 1)

BoxInit ==
    \E plane \in BoxPlanes, win \in BoxWins :
        box = [pc |-> "args", plane |-> plane, win |-> win, by |-> "none",
               out |-> <<>>]

BoxSum(v) ==
    /\ box.pc = "args"
    /\ box' = [box EXCEPT !.pc = "done", !.by = v,
                 !.out = IF v = "BM" THEN BM_box_sum_2d_int(box.plane, box.win)
                         ELSE NL_box_sum_2d_int(box.plane, box.win)]
    /\ UNCHANGED <<codec, fx, est, fuse, fixq, cross, epis, units>>

BoxSumBM == BoxSum("BM")

BoxSumNL == BoxSum("NL")

InitBox ==
    /\ BoxInit
    /\ codec = Idle /\ fx = Idle /\ est = Idle /\ fuse = Idle
    /\ fixq = Idle /\ cross = Idle /\ epis = Idle /\ units = Idle

NextBox == BoxSumBM \/ BoxSumNL

SpecBox == InitBox /\ [][NextBox]_vars

(***************************************************************************)
(* Box sum: properties                                                     *)
(***************************************************************************)
RECURSIVE SumSeq(_)
SumSeq(s) == IF s = <<>> THEN 0 ELSE Head(s) + SumSeq(Tail(s))

PlainSum(plane) == SumSeq([a \in 1..Len(plane) |-> SumSeq(plane[a])])

BoxRows == Len(box.plane)

BoxCols == IF BoxRows = 0 THEN 0 ELSE Len(box.plane[1])

\* the window radius reaches every row and column from every position
CoversPlane ==
    /\ box.win > 1
    /\ BoxRows >= 1
    /\ box.win \div 2 >= BoxRows - 1
    /\ box.win \div 2 >= BoxCols - 1

\* C7: with a window whose radius covers the whole plane the box sum is, at
\* every position, the plain sum of all plane entries; with window size 1 it
\* is the input plane.
C7_BoxSpecialCases ==
    box.pc = "done"
      => /\ CoversPlane
              => /\ Len(box.out) = BoxRows
                 /\ \A a \in 1..BoxRows :
                      /\ Len(box.out[a]) = BoxCols
                      /\ \A x \in 1..BoxCols :
                           box.out[a][x] = PlainSum(box.plane)
         /\ box.win = 1 => box.out = box.plane

C7_Witness ==
    /\ box.pc = "done" /\ box.by = "BM" /\ CoversPlane
    /\ BoxRows = MaxBoxDim /\ BoxCols = MaxBoxDim
    /\ PlainSum(box.plane) < 0
    /\ box.out[MaxBoxDim][1] = PlainSum(box.plane)

(***************************************************************************)
(* EPIs.py / confidence.py (Bit_Manipulation): byte geometry               *)
(***************************************************************************)
BYTES_PER_SAMPLE == 3

BYTES_PER_PIXEL_RGB == 9

EPI_ROW_BYTES == WH_SIZE * 9          \* WH_SIZE pixels * 9 bytes/pixel

ROW_BYTES_X3 == WH_SIZE * 9 * 3       \* WH_SIZE pixels * 9 bytes * 3 rows

DIFF_PAY_BYTES == ROW_BYTES_X3        \* import ROW_BYTES_X3 as DIFF_PAY_BYTES

N_IMG == WH_SIZE * WH_SIZE            \* 1 << (WH_SHIFT + WH_SHIFT)

OUT_IMG_BYTES == N_IMG * 3

DIFF_ROW_BYTES == WH_SIZE * 3         \* WH_SIZE samples * 3 bytes/sample

DEMONINATOR == 7

DEMONINATOR_HALF == 3

BM_conf_mean_floor(sum_abs_x) == sum_abs_x \div DEMONINATOR

\* (sum_abs[x] + DEMONINATOR_HALF) // DEMONINATOR
BM_conf_mean(sum_abs_x) == (sum_abs_x + DEMONINATOR_HALF) \div DEMONINATOR

\* the payload _u24_write builds from the samples vals, three bytes each
PackedSeq(vals) ==
    Tab([i \in 1..(Len(vals) * 3) |->
           u24_bytes(vals[((i - 1) \div 3) + 1])[((i - 1) % 3) + 1]])

\* the signed sample at 0-based sample index i of a one-channel payload
Decoded(pay, i) == u24_read(pay, i * 3) - BIAS_INT

(***************************************************************************)
(* confidence.py (Bit_Manipulation) : compute_from_epis_with_diffs         *)
(***************************************************************************)
BM_conf_central_diff_sum(Lm, Lp) == BM_conf_round_div2(Lp + Lm)

\* d = _round_div2(Lp - Lm)
BM_conf_central_diff(Lm, Lp) == BM_conf_round_div2(Lp - Lm)

\* the raw sample 0, which decodes to -BIAS_INT rather than to 0
BM_conf_border_u24_unbiased == BIAS_INT - BIAS_INT

\* the sample written at the angular borders a = 0 and a = EPI_UV - 1
BM_conf_border_u24 == BIAS_INT

\* the loop body for one EPI payload: the diff payload and sum_abs, or the
\* IndexError of the first _u24_read past the end of the payload
BM_conf_unit(pay, CH_OFF) ==
    LET idx(a, xi) == a * EPI_ROW_BYTES + xi * BYTES_PER_PIXEL_RGB + CH_OFF
        d(a, xi) == BM_conf_central_diff(u24_read(pay, idx(a - 1, xi)) - BIAS_INT,
                                         u24_read(pay, idx(a + 1, xi)) - BIAS_INT)
        interior == 1..(EPI_UV - 2)
        dq == Tab([a \in interior |-> Tab([x \in 1..WH_SIZE |-> d(a, x - 1)])])
        vals == Tab([j \in 1..(EPI_UV * WH_SIZE) |->
                   LET a == (j - 1) \div WH_SIZE
                       xi == (j - 1) % WH_SIZE
                   IN  IF a = 0 \/ a = EPI_UV - 1 THEN BM_conf_border_u24
                       ELSE BM_conf_bias_from_q12_12(dq[a][xi + 1])])
        written == PackedSeq(vals)
        out_diff == [i \in 1..DIFF_PAY_BYTES |->
                       IF i <= Len(written) THEN written[i] ELSE 0]
        sum_abs == [x \in 1..WH_SIZE |->
                      SumSeq([a \in interior |-> abs_i32(dq[a][x])])]
    IN  IF \E a \in interior, xi \in 0..(WH_SIZE - 1) :
              idx(a + 1, xi) + 2 >= Len(pay)
        THEN Raise("IndexError")
        ELSE Ret([out_diff |-> Tab(out_diff), sum_abs |-> Tab(sum_abs)])

BM_compute_from_epis_with_diffs(epi_h_imgb, epi_v_imgb, channel) ==
    LET ch == channel
        CH_OFF == Shl(ch, 1) + ch
        \* IndexError when the lists hold fewer than WH_SIZE blobs
        short == Len(epi_h_imgb) < WH_SIZE \/ Len(epi_v_imgb) < WH_SIZE
        hu == Tab([y \in 1..WH_SIZE |->
                 BM_conf_unit(imbg_parse_payload(epi_h_imgb[y]), CH_OFF)])
        vu == Tab([x \in 1..WH_SIZE |->
                 BM_conf_unit(imbg_parse_payload(epi_v_imgb[x]), CH_OFF)])
        \* C_h_q[(y << WH_SHIFT) + x], biased
        C_h_u == Tab([j \in 1..N_IMG |->
                   LET y == (j - 1) \div WH_SIZE
                       x == (j - 1) % WH_SIZE
                   IN  BM_conf_bias_from_q12_12(
                         BM_conf_mean(hu[y + 1].val.sum_abs[x + 1]))])
        \* C_v_q[(y << WH_SHIFT) + x], biased
        C_v_u == Tab([j \in 1..N_IMG |->
                   LET y == (j - 1) \div WH_SIZE
                       x == (j - 1) % WH_SIZE
                   IN  BM_conf_bias_from_q12_12(
                         BM_conf_mean(vu[x + 1].val.sum_abs[y + 1]))])
        diffblob(unit) ==
            BM_imgb_make(WH_SIZE, EPI_UV, 1, 4, unit.val.out_diff).val
    IN  IF short THEN Raise("IndexError")
        ELSE IF \E k \in 1..WH_SIZE : hu[k].exc # "none" \/ vu[k].exc # "none"
        THEN Raise("IndexError")
        ELSE Ret([C_h |-> BM_imgb_make(WH_SIZE, WH_SIZE, 1, 4,
                                       PackedSeq(C_h_u)).val,
                  C_v |-> BM_imgb_make(WH_SIZE, WH_SIZE, 1, 4,
                                       PackedSeq(C_v_u)).val,
                  dL_du_h |-> [y \in 1..WH_SIZE |-> diffblob(hu[y])],
                  dL_dv_v |-> [x \in 1..WH_SIZE |-> diffblob(vu[x])]])

(***************************************************************************)
(* confidence.py (No_Libraries) : compute_from_epis_with_diffs             *)
(***************************************************************************)
\* the loop body for one EPI payload of A rows and n positions, A >= 3
NL_conf_unit(pay, A, n, ch) ==
    LET idx(a, x) == ((a * n + x) * 9) + ch * 3
        d(a, x) == NL_conf_round_div2((u24_read(pay, idx(a + 1, x)) - BIAS_INT)
                                      - (u24_read(pay, idx(a - 1, x)) - BIAS_INT))
        interior == 1..(A - 2)
        dq == Tab([a \in interior |-> Tab([x \in 1..n |-> d(a, x - 1)])])
        vals == Tab([j \in 1..(A * n) |->
                   LET a == (j - 1) \div n
                       x == (j - 1) % n
                   IN  IF a = 0 \/ a = A - 1 THEN BIAS_INT
                       ELSE NL_conf_bias_from_q12_12(dq[a][x + 1])])
        sum_abs == [x \in 1..n |->
                      SumSeq([a \in interior |-> abs_i32(dq[a][x])])]
    IN  [out_diff |-> PackedSeq(vals), sum_abs |-> Tab(sum_abs)]

\* the A < 3 branch: every diff sample is the bias, sum_abs is never used
NL_conf_unit_degenerate(A, n) ==
    [out_diff |-> PackedSeq([i \in 1..(A * n) |-> BIAS_INT]),
     sum_abs |-> [x \in 1..n |-> 0]]

NL_compute_from_epis_with_diffs(epi_h_imgb, epi_v_imgb, channel) ==
    LET ch == channel
        H_img == Len(epi_h_imgb)
        W_img == Len(epi_v_imgb)
    IN  IF H_img = 0 \/ W_img = 0 THEN Raise("ValueError")
        ELSE
        LET ph == NL_imgb_parse(epi_h_imgb[1])
            pv == NL_imgb_parse(epi_v_imgb[1])
        IN  IF ph.exc # "none" \/ pv.exc # "none" THEN Raise("ValueError")
            ELSE
            LET W == ph.val[1]
                A == ph.val[2]
                H == H_img
                W_v == pv.val[1]
                A_v == pv.val[2]
            IN  IF ph.val[4] # 4 \/ pv.val[4] # 4 THEN Raise("ValueError")
                ELSE IF ph.val[3] # 3 \/ pv.val[3] # 3 THEN Raise("ValueError")
                ELSE IF W_img # W THEN Raise("ValueError")
                ELSE IF W_v # H THEN Raise("ValueError")
                ELSE IF A_v # A THEN Raise("ValueError")
                ELSE
                LET denom == A - 2
                    half == denom \div 2
                    \* only the first blob of each list is parsed: a later
                    \* payload that is too short fails in _u24_read
                    short ==
                        /\ A >= 3
                        /\ \/ \E y \in 1..H :
                                Len(epi_h_imgb[y]) < 16 + A * W * 9
                           \/ \E x \in 1..W :
                                Len(epi_v_imgb[x]) < 16 + A * H * 9
                    hu == Tab([y \in 1..H |->
                             IF A < 3 THEN NL_conf_unit_degenerate(A, W)
                             ELSE NL_conf_unit(
                                    imbg_parse_payload(epi_h_imgb[y]), A, W, ch)])
                    vu == Tab([x \in 1..W |->
                             IF A < 3 THEN NL_conf_unit_degenerate(A, H)
                             ELSE NL_conf_unit(
                                    imbg_parse_payload(epi_v_imgb[x]), A, H, ch)])
                    \* C_h_q[y * W + x], biased
                    C_h_u == Tab([j \in 1..(H * W) |->
                               LET y == (j - 1) \div W
                                   x == (j - 1) % W
                               IN  NL_conf_bias_from_q12_12(
                                     IF A < 3 THEN 0
                                     ELSE (hu[y + 1].sum_abs[x + 1] + half)
                                            \div denom)])
                    \* C_v_q[y * W + x], biased
                    C_v_u == Tab([j \in 1..(H * W) |->
                               LET y == (j - 1) \div W
                                   x == (j - 1) % W
                               IN  NL_conf_bias_from_q12_12(
                                     IF A < 3 THEN 0
                                     ELSE (vu[x + 1].sum_abs[y + 1] + half)
                                            \div denom)])
                IN  IF short THEN Raise("IndexError") ELSE
                    Ret([C_h |-> NL_imgb_make(W, H, 1, 4,
                                              PackedSeq(C_h_u)).val,
                         C_v |-> NL_imgb_make(W, H, 1, 4,
                                              PackedSeq(C_v_u)).val,
                         dL_du_h |-> [y \in 1..H |->
                            NL_imgb_make(W, A, 1, 4, hu[y].out_diff).val],
                         dL_dv_v |-> [x \in 1..W |->
                            NL_imgb_make(H, A, 1, 4, vu[x].out_diff).val]])

(***************************************************************************)
(* Confidence estimator: the calls                                         *)
(*                                                                         *)
(* The caller holds H horizontal EPIs (one per image row, W positions      *)
(* each) and W vertical EPIs (one per image column, H positions each), all *)
(* with A angular rows, as well-formed IMGB blobs of three channels.       *)
(***************************************************************************)
NlWidth == 3         \* a non-square image for the generic variant

NlHeight == 2

\* sample patterns: a base level, an angular slope, and a cross term that
\* makes the angular difference depend on the position
\* <<base level, angular slope, weight of the cross term>>; with weight 0
\* the EPI is a linear ramp along the angular axis
ConfPatterns == { <<0, 16777215, 1>>, <<8388608, -7, 1>>, <<8388608, 2, 1>>,
                  <<16777215, -16777215, 1>>, <<8388608, 5, 0>> }

\* u24 sample of unit k (image row or column) at angular index a, position x
\* and channel c; the values saturate at the ends of the 24-bit range
SampleH(base, slope, curve, k, a, x, c) ==
    Clamp(base + slope * a + curve * (a * a) * (x + 1) + 16 * k + 100 * c,
          0, U24_MAX)

SampleV(base, slope, curve, k, a, y, c) ==
    Clamp(base - slope * a + curve * 3 * a * (2 * y + k) + 1000 * c,
          0, U24_MAX)

\* an EPI blob of A rows and n positions whose sample (a, x, c) is u(a, x, c)
EpiBlob(n, A, u(_, _, _)) ==
    LET s == Tab([j \in 1..(A * n * 3) |->
                u((j - 1) \div (n * 3), ((j - 1) \div 3) % n, (j - 1) % 3)])
    IN  NL_imgb_make(n, A, 3, 4, PackedSeq(s)).val

ConfInit ==
    \E geom \in {<<NlWidth, NlHeight>>, <<WH_SIZE, WH_SIZE>>},
       A \in 1..EPI_UV, ch \in {0, 1, 2},
       pat \in ConfPatterns :
        LET W == geom[1]
            H == geom[2]
            base == pat[1]
            slope == pat[2]
            curve == pat[3]
            uh(y) == LET u(a, x, c) == SampleH(base, slope, curve, y, a, x, c)
                     IN  EpiBlob(W, A, u)
            uv(x) == LET u(a, y, c) == SampleV(base, slope, curve, x, a, y, c)
                     IN  EpiBlob(H, A, u)
        IN  est = [pc |-> "args", W |-> W, H |-> H, A |-> A, channel |-> ch,
                   epi_h |-> [y \in 1..H |-> uh(y - 1)],
                   epi_v |-> [x \in 1..W |-> uv(x - 1)],
                   by |-> "none", out |-> NoCall,
                   d |-> 4096, ds |-> 4096, du |-> 4096, win |-> 5,
                   dt |-> 4096, dv |-> 4096,
                   Z_h |-> NoCall, Z_v |-> NoCall]

Confidence(v) ==
    /\ est.pc = "args"
    /\ est' = [est EXCEPT !.pc = "conf", !.by = v,
                 !.out = IF v = "NL"
                         THEN NL_compute_from_epis_with_diffs(
                                est.epi_h, est.epi_v, est.channel)
                         ELSE BM_compute_from_epis_with_diffs(
                                est.epi_h, est.epi_v, est.channel)]
    /\ UNCHANGED <<codec, fx, box, fuse, fixq, cross, epis, units>>

ConfidenceNL == Confidence("NL")

ConfidenceBM == Confidence("BM")

InitConf ==
    /\ ConfInit
    /\ codec = Idle /\ fx = Idle /\ box = Idle /\ fuse = Idle
    /\ fixq = Idle /\ cross = Idle /\ epis = Idle /\ units = Idle

NextConf == ConfidenceNL \/ ConfidenceBM

SpecConf == InitConf /\ [][NextConf]_vars

(***************************************************************************)
(* Confidence estimator: properties                                        *)
(***************************************************************************)
\* the decoded sample i (0-based) of a one-channel blob
BlobSample(blob, i) == Decoded(imbg_parse_payload(blob), i)

\* the number of samples a one-channel blob carries
BlobCount(blob) == (Len(blob) - 16) \div 3

\* every sample of angular row a of a difference volume of n positions
RowIsZero(blob, a, n) == \A x \in 0..(n - 1) : BlobSample(blob, a * n + x) = 0

AllZero(blob) == \A i \in 0..(BlobCount(blob) - 1) : BlobSample(blob, i) = 0

\* the geometry Bit_Manipulation is compiled for
Canonical == est.W = WH_SIZE /\ est.H = WH_SIZE

\* C6: for A >= 3 the angular-difference volumes returned by
\* compute_from_epis_with_diffs hold the bias value (decoding to 0) at angular
\* index 0 and at angular index A-1, at every position, on both axes.
C6_BorderZero ==
    (est.pc = "conf" /\ est.A >= 3 /\ est.out.exc = "none")
      => /\ \A y \in 1..est.H :
              /\ BlobCount(est.out.val.dL_du_h[y]) = est.A * est.W
              /\ RowIsZero(est.out.val.dL_du_h[y], 0, est.W)
              /\ RowIsZero(est.out.val.dL_du_h[y], est.A - 1, est.W)
         /\ \A x \in 1..est.W :
              /\ BlobCount(est.out.val.dL_dv_v[x]) = est.A * est.H
              /\ RowIsZero(est.out.val.dL_dv_v[x], 0, est.H)
              /\ RowIsZero(est.out.val.dL_dv_v[x], est.A - 1, est.H)

C6_Witness ==
    /\ est.pc = "conf" /\ est.by = "BM" /\ est.A = EPI_UV
    /\ est.out.exc = "none"
    /\ RowIsZero(est.out.val.dL_du_h[1], EPI_UV - 1, WH_SIZE)
    /\ RowIsZero(est.out.val.dL_dv_v[WH_SIZE], 0, WH_SIZE)
    /\ ~RowIsZero(est.out.val.dL_du_h[1], 1, WH_SIZE)
    /\ ~RowIsZero(est.out.val.dL_dv_v[WH_SIZE], EPI_UV - 2, WH_SIZE)

\* C8: with angular count 1 or 2 compute_from_epis_with_diffs completes
\* without raising, C_h and C_v decode to 0 at every pixel and every
\* angular-difference sample decodes to 0.
C8_DegenerateSafe ==
    (est.pc = "conf" /\ est.A \in {1, 2} /\ (est.by = "BM" => Canonical))
      => /\ est.out.exc = "none"
         /\ AllZero(est.out.val.C_h)
         /\ AllZero(est.out.val.C_v)
         /\ \A y \in 1..est.H : AllZero(est.out.val.dL_du_h[y])
         /\ \A x \in 1..est.W : AllZero(est.out.val.dL_dv_v[x])

\* the No_Libraries variant alone keeps the degenerate contract
C8_DegenerateSafeNL ==
    (est.pc = "conf" /\ est.A \in {1, 2} /\ est.by = "NL")
      => /\ est.out.exc = "none"
         /\ AllZero(est.out.val.C_h)
         /\ AllZero(est.out.val.C_v)
         /\ \A y \in 1..est.H : AllZero(est.out.val.dL_du_h[y])
         /\ \A x \in 1..est.W : AllZero(est.out.val.dL_dv_v[x])

(***************************************************************************)
(* disparity.py (Bit_Manipulation) : fixed-point helpers                   *)
(***************************************************************************)
Q_ONE == 4096                        \* 1 << Q_FRAC

\* Python's a // b (floor) for a divisor of either sign
FloorDiv(a, b) == IF b > 0 THEN a \div b ELSE (-a) \div (-b)

BM_div_q12(num_q12, den_q12) ==
    IF den_q12 = 0 THEN 0
    ELSE IF num_q12 >= 0
         THEN FloorDiv(Shl12(num_q12) + Shr1(den_q12), den_q12)
         ELSE -FloorDiv(Shl12(-num_q12) + Shr1(den_q12), den_q12)

\* a reciprocal that answers one unit instead of 0 for a zero denominator
BM_inv_q12_lsb(den_q12) ==
    IF den_q12 > 0 THEN (Shl12(Q_ONE) + Shr1(den_q12)) \div den_q12
    ELSE IF den_q12 < 0
    THEN -((Shl12(Q_ONE) + Shr1(-den_q12)) \div (-den_q12))
    ELSE 1

BM_inv_q12(den_q12) ==
    IF den_q12 = 0 THEN 0
    ELSE LET num == Shl12(Q_ONE)
         IN  IF den_q12 > 0 THEN (num + Shr1(den_q12)) \div den_q12
             ELSE -((num + Shr1(-den_q12)) \div (-den_q12))

BM_mul_q12(a_q12, b_q12) ==
    LET prod == a_q12 * b_q12
    IN  IF prod >= 0 THEN Shr12(prod + 2048) ELSE -Shr12((-prod) + 2048)

RECURSIVE BM_pow_loop(_, _, _)
\* the while loop of _pow_q12_int from the state (result, b, e)
BM_pow_loop(result, b, e) ==
    IF e <= 0 THEN result
    ELSE LET r1 == IF e % 2 = 1 THEN BM_mul_q12(result, b) ELSE result
             e1 == Shr1(e)
             b1 == IF e1 # 0 THEN BM_mul_q12(b, b) ELSE b
         IN  BM_pow_loop(r1, b1, e1)

BM_pow_q12_int(base_q12, exp) ==
    IF exp <= 0 THEN Q_ONE
    ELSE IF exp = 1 THEN base_q12
    ELSE BM_pow_loop(Q_ONE, base_q12, exp)

BM_clamp_q12(x_q12, lo_q12, hi_q12) ==
    IF x_q12 < lo_q12 THEN lo_q12
    ELSE IF x_q12 > hi_q12 THEN hi_q12
    ELSE x_q12

(***************************************************************************)
(* disparity.py (Bit_Manipulation) : compute_horizontal_from_epis          *)
(***************************************************************************)
\* if den_acc_q12 <= 0: D_q12 = 0
BM_disp_zero_den(den_acc_q12) == den_acc_q12 <= 0

\* the body of the "while y < WH_SIZE" loop: the WH_SIZE values D_q12 of one
\* image row, from its EPI payload and its angular-difference payload
BM_disp_row(epi_pay, d_pay, du_over_ds_q12, inv_d_q12, win) ==
    LET rows == 1..EPI_UV
        cols == 1..WH_SIZE
        dL_du == Tab([a \in rows |-> Tab([x \in cols |->
                   u24_read(d_pay, (a - 1) * DIFF_ROW_BYTES
                                     + (x - 1) * BYTES_PER_SAMPLE) - BIAS_INT])])
        dL_ds == Tab([a \in rows |-> Tab([x \in cols |->
                   IF x = 1 \/ x = WH_SIZE THEN 0
                   ELSE LET o_m == (a - 1) * EPI_ROW_BYTES
                                     + (x - 2) * BYTES_PER_PIXEL_RGB
                            o_p == o_m + Shl(BYTES_PER_PIXEL_RGB, 1)
                            Lm == u24_read(epi_pay, o_m) - BIAS_INT
                            Lp == u24_read(epi_pay, o_p) - BIAS_INT
                        IN  BM_disp_round_div2(Lp - Lm)])])
        P_uv == Tab([a \in rows |-> Tab([x \in cols |->
                   dL_du[a][x] * dL_ds[a][x]])])
        P_uu == Tab([a \in rows |-> Tab([x \in cols |->
                   dL_du[a][x] * dL_du[a][x]])])
        W_u == Tab([a \in rows |-> Tab([x \in cols |-> abs_i32(dL_du[a][x])])])
        S_uv == BM_box_sum_2d_int(P_uv, win)
        S_uu == BM_box_sum_2d_int(P_uu, win)
        W_b == BM_box_sum_2d_int(W_u, win)
        used(a, x) == W_b[a][x] > 0 /\ S_uu[a][x] > 0
        k_hat_q12(a, x) == Shl12(S_uv[a][x]) \div S_uu[a][x]
        ratio_q12(a, x) == Shr12(du_over_ds_q12 * k_hat_q12(a, x))
        num_acc_q24(x) == SumSeq([a \in rows |->
                            IF used(a, x) THEN ratio_q12(a, x) * W_b[a][x]
                            ELSE 0])
        den_acc_q12(x) == SumSeq([a \in rows |->
                            IF used(a, x) THEN W_b[a][x] ELSE 0])
        D_q12(x) ==
            LET num == num_acc_q24(x)
                den == den_acc_q12(x)
            IN  IF BM_disp_zero_den(den) THEN 0
                ELSE LET ratio_s_q12 ==
                           IF num >= 0 THEN (num + Shl11(den)) \div den
                           ELSE -(((-num) + Shl11(den)) \div den)
                     IN  Shr12((Q_ONE + ratio_s_q12) * inv_d_q12)
    IN  Tab([x \in cols |-> D_q12(x)])

BM_compute_horizontal_from_epis(epi_h_imgb, dL_du_h, d, ds, du, win) ==
    LET du_over_ds_q12 == BM_div_q12(du, ds)
        inv_d_q12 == BM_inv_q12(d)
        \* IndexError on a list or a payload shorter than the compiled size
        short ==
            \/ Len(epi_h_imgb) < WH_SIZE
            \/ Len(dL_du_h) < WH_SIZE
            \/ \E y \in 1..WH_SIZE :
                 \/ Len(epi_h_imgb[y]) < 16 + EPI_UV * EPI_ROW_BYTES
                 \/ Len(dL_du_h[y]) < 16 + EPI_UV * DIFF_ROW_BYTES
        out_rows == Tab([y \in 1..WH_SIZE |->
                      BM_disp_row(imbg_parse_payload(epi_h_imgb[y]),
                                  imbg_parse_payload(dL_du_h[y]),
                                  du_over_ds_q12, inv_d_q12, win)])
        \* out_q[(y << WH_SHIFT) + x], biased
        out_u == Tab([j \in 1..N_IMG |->
                   BM_disp_bias_q(out_rows[((j - 1) \div WH_SIZE) + 1]
                                          [((j - 1) % WH_SIZE) + 1])])
    IN  IF short THEN Raise("IndexError")
        ELSE BM_imgb_make(WH_SIZE, WH_SIZE, 1, 4, PackedSeq(out_u))

\* the values of a column read from its far end
BM_disp_col_mirrored(epi_pay, d_pay, dv_over_dt_q12, inv_d_q12, win) ==
    LET row == BM_disp_row(epi_pay, d_pay, dv_over_dt_q12, inv_d_q12, win)
    IN  [y \in 1..WH_SIZE |-> row[WH_SIZE + 1 - y]]

\* the body of the "while x < WH_SIZE" loop of compute_vertical_from_epis:
\* the values of column x, one per position y of its vertical EPI
BM_disp_col(epi_pay, d_pay, dv_over_dt_q12, inv_d_q12, win) ==
    LET rows == 1..EPI_UV
        cols == 1..WH_SIZE
        dL_dv == Tab([a \in rows |-> Tab([y \in cols |->
                   u24_read(d_pay, (a - 1) * DIFF_ROW_BYTES
                                     + (y - 1) * BYTES_PER_SAMPLE) - BIAS_INT])])
        dL_dt == Tab([a \in rows |-> Tab([y \in cols |->
                   IF y = 1 \/ y = WH_SIZE THEN 0
                   ELSE LET o_m == (a - 1) * EPI_ROW_BYTES
                                     + (y - 2) * BYTES_PER_PIXEL_RGB
                            o_p == o_m + Shl(BYTES_PER_PIXEL_RGB, 1)
                            Lm == u24_read(epi_pay, o_m) - BIAS_INT
                            Lp == u24_read(epi_pay, o_p) - BIAS_INT
                        IN  BM_disp_round_div2(Lp - Lm)])])
        P_vt == Tab([a \in rows |-> Tab([y \in cols |->
                   dL_dv[a][y] * dL_dt[a][y]])])
        P_vv == Tab([a \in rows |-> Tab([y \in cols |->
                   dL_dv[a][y] * dL_dv[a][y]])])
        W_v == Tab([a \in rows |-> Tab([y \in cols |-> abs_i32(dL_dv[a][y])])])
        S_vt == BM_box_sum_2d_int(P_vt, win)
        S_vv == BM_box_sum_2d_int(P_vv, win)
        W_b == BM_box_sum_2d_int(W_v, win)
        used(a, y) == W_b[a][y] > 0 /\ S_vv[a][y] > 0
        k_hat_q12(a, y) == Shl12(S_vt[a][y]) \div S_vv[a][y]
        ratio_q12(a, y) == Shr12(dv_over_dt_q12 * k_hat_q12(a, y))
        num_acc_q24(y) == SumSeq([a \in rows |->
                            IF used(a, y) THEN ratio_q12(a, y) * W_b[a][y]
                            ELSE 0])
        den_acc_q12(y) == SumSeq([a \in rows |->
                            IF used(a, y) THEN W_b[a][y] ELSE 0])
        D_q12(y) ==
            LET num == num_acc_q24(y)
                den == den_acc_q12(y)
            IN  IF BM_disp_zero_den(den) THEN 0
                ELSE LET ratio_t_q12 ==
                           IF num >= 0 THEN (num + Shl11(den)) \div den
                           ELSE -(((-num) + Shl11(den)) \div den)
                     IN  Shr12((Q_ONE + ratio_t_q12) * inv_d_q12)
    IN  Tab([y \in cols |-> D_q12(y)])

\* compute_vertical_from_epis: the value of position y of column x goes to
\* out_q[(y << WH_SHIFT) + x]
BM_compute_vertical_from_epis(epi_v_imgb, dL_dv_v, d, dt, dv, win) ==
    LET dv_over_dt_q12 == BM_div_q12(dv, dt)
        inv_d_q12 == BM_inv_q12(d)
        short ==
            \/ Len(epi_v_imgb) < WH_SIZE
            \/ Len(dL_dv_v) < WH_SIZE
            \/ \E x \in 1..WH_SIZE :
                 \/ Len(epi_v_imgb[x]) < 16 + EPI_UV * EPI_ROW_BYTES
                 \/ Len(dL_dv_v[x]) < 16 + EPI_UV * DIFF_ROW_BYTES
        out_cols == Tab([x \in 1..WH_SIZE |->
                      BM_disp_col(imbg_parse_payload(epi_v_imgb[x]),
                                  imbg_parse_payload(dL_dv_v[x]),
                                  dv_over_dt_q12, inv_d_q12, win)])
        out_u == Tab([j \in 1..N_IMG |->
                   BM_disp_bias_q(out_cols[((j - 1) % WH_SIZE) + 1]
                                          [((j - 1) \div WH_SIZE) + 1])])
    IN  IF short THEN Raise("IndexError")
        ELSE BM_imgb_make(WH_SIZE, WH_SIZE, 1, 4, PackedSeq(out_u))

(***************************************************************************)
(* Confidence then horizontal disparity (Bit_Manipulation): the calls      *)
(*                                                                         *)
(* The pipeline hands the EPIs to compute_from_epis_with_diffs and the     *)
(* horizontal EPIs with the returned dL_du_h to                            *)
(* compute_horizontal_from_epis.  Some image rows have an EPI without      *)
(* angular variation (every angular row the same, any spatial profile);    *)
(* image row RampRow, unless it is one of those, has an EPI that is a      *)
(* linear ramp along the angular axis with no spatial gradient; the other  *)
(* rows vary by a few units per step along both axes.                      *)
(***************************************************************************)
\* the sets of image rows whose EPI has no angular variation
FlatSets == { {0}, {1, WH_SIZE - 1}, 0..(WH_SIZE - 1) }

\* spatial slope of the rows without angular variation
FlatSlopes == {0, 100000, -2000000}

\* <<angular slope, spatial slope>> of the rows with angular variation
VaryingSlopes == { <<-2, 3>>, <<3, -5>> }

SampleFlat(slope, y, x, c) ==
    Clamp(BIAS_INT + slope * x * (y + 1) + 4096 * (y + c), 0, U24_MAX)

SampleVarying(sl, y, a, x, c) ==
    BIAS_INT + sl[1] * a + sl[2] * x + a * x + y + 100 * c

\* the image row whose EPI is an angular ramp
RampRow == WH_SIZE - 2

\* every angular row spatially constant, consecutive rows step apart
SampleRamp(step, y, a, c) == BIAS_INT + step * a + 4096 * y + 100 * c

PipeInit ==
    \E flat \in FlatSets, fs \in FlatSlopes, sl \in VaryingSlopes,
       d \in {0, 2048, 4096}, ds \in {-4096, 0, 4096}, du \in {2048},
       win \in {1, 3, 5} :
        LET uh(y) == LET u(a, x, c) == IF y \in flat
                                       THEN SampleFlat(fs, y, x, c)
                                       ELSE IF y = RampRow
                                       THEN SampleRamp(sl[1], y, a, c)
                                       ELSE SampleVarying(sl, y, a, x, c)
                     IN  EpiBlob(WH_SIZE, EPI_UV, u)
            uv(x) == LET u(a, y, c) == SampleVarying(sl, x, a, y, c)
                     IN  EpiBlob(WH_SIZE, EPI_UV, u)
        IN  est = [pc |-> "args", W |-> WH_SIZE, H |-> WH_SIZE, A |-> EPI_UV,
                   channel |-> 0,
                   epi_h |-> [y \in 1..WH_SIZE |-> uh(y - 1)],
                   epi_v |-> [x \in 1..WH_SIZE |-> uv(x - 1)],
                   by |-> "none", out |-> NoCall,
                   d |-> d, ds |-> ds, du |-> du, win |-> win,
                   dt |-> ds, dv |-> du,
                   Z_h |-> NoCall, Z_v |-> NoCall]

HorizontalBM ==
    /\ est.pc = "conf"
    /\ est.by = "BM"
    /\ est.out.exc = "none"
    /\ est' = [est EXCEPT !.pc = "disp",
                 !.Z_h = BM_compute_horizontal_from_epis(
                           est.epi_h, est.out.val.dL_du_h,
                           est.d, est.ds, est.du, est.win)]
    /\ UNCHANGED <<codec, fx, box, fuse, fixq, cross, epis, units>>

InitPipe ==
    /\ PipeInit
    /\ codec = Idle /\ fx = Idle /\ box = Idle /\ fuse = Idle
    /\ fixq = Idle /\ cross = Idle /\ epis = Idle /\ units = Idle

\* main.py calls the vertical estimator after the horizontal one
VerticalBM ==
    /\ est.pc = "disp"
    /\ est.by = "BM"
    /\ est.out.exc = "none"
    /\ est' = [est EXCEPT !.pc = "done",
                 !.Z_v = BM_compute_vertical_from_epis(
                           est.epi_v, est.out.val.dL_dv_v,
                           est.d, est.dt, est.dv, est.win)]
    /\ UNCHANGED <<codec, fx, box, fuse, fixq, cross, epis, units>>

NextPipe == ConfidenceBM \/ HorizontalBM \/ VerticalBM

SpecPipe == InitPipe /\ [][NextPipe]_vars

(***************************************************************************)
(* Confidence then horizontal disparity: properties                        *)
(***************************************************************************)
\* every angular row of the EPI equals its first row, in every channel
NoAngularVariation(blob, n, A) ==
    LET pay == imbg_parse_payload(blob)
    IN  \A a \in 1..(A - 1), i \in 1..(n * 9) : pay[a * n * 9 + i] = pay[i]

\* image row y (0-based) of a one-channel W x H map decodes to 0
MapRowIsZero(blob, y, W) ==
    \A x \in 0..(W - 1) : BlobSample(blob, y * W + x) = 0

BM_fuse_pixel(zh_q12, zv_q12, ch_raw, cv_raw, temperature, floor, cap, eps) ==
    LET ch_q12 == BM_clamp_q12(IF ch_raw < 0 THEN 0 ELSE ch_raw, floor, cap)
        cv_q12 == BM_clamp_q12(IF cv_raw < 0 THEN 0 ELSE cv_raw, floor, cap)
        p_h_q12 == BM_pow_q12_int(ch_q12, temperature)
        p_v_q12 == BM_pow_q12_int(cv_q12, temperature)
        num_q24 == (p_h_q12 * zh_q12) + (p_v_q12 * zv_q12)
        den_q12 == p_h_q12 + p_v_q12 + eps
    IN  IF den_q12 <= 0 THEN 0
        ELSE IF num_q24 >= 0
             THEN (num_q24 + Shl11(den_q12)) \div den_q12
             ELSE -(((-num_q24) + Shl11(den_q12)) \div den_q12)

BM_fuse_disparity_precision(Z_h_imgb, Z_v_imgb, C_h_imgb, C_v_imgb, temperature, floor, cap, eps) ==
    LET pZh == imbg_parse_payload(Z_h_imgb)
        pZv == imbg_parse_payload(Z_v_imgb)
        pCh == imbg_parse_payload(C_h_imgb)
        pCv == imbg_parse_payload(C_v_imgb)
        \* IndexError on a payload shorter than the compiled image
        short == \E pay \in {pZh, pZv, pCh, pCv} : Len(pay) < OUT_IMG_BYTES
        out_u == Tab([j \in 1..N_IMG |->
                   LET k == j - 1
                   IN  BM_disp_bias_q(
                         BM_fuse_pixel(Decoded(pZh, k), Decoded(pZv, k),
                                       Decoded(pCh, k), Decoded(pCv, k),
                                       temperature, floor, cap, eps))])
    IN  IF short THEN Raise("IndexError")
        ELSE BM_imgb_make(WH_SIZE, WH_SIZE, 1, 4, PackedSeq(out_u))

(***************************************************************************)
(* Fusion: the calls                                                       *)
(***************************************************************************)
\* a WH_SIZE x WH_SIZE one-channel map whose pixel k decodes to q(k)
MapBlob(q(_)) ==
    LET u == Tab([j \in 1..N_IMG |-> BM_disp_bias_q(q(j - 1))])
    IN  BM_imgb_make(WH_SIZE, WH_SIZE, 1, 4, PackedSeq(u)).val

\* <<Z_h at pixel 0, Z_v at pixel 0>>; the maps drift apart pixel by pixel
FuseDepths == { <<0, 0>>, <<4096, 4096>>, <<-4096, 8192>>, <<-12288, -300>> }

\* <<C_h at pixel 0, C_v at pixel 0, step per pixel>>
FuseConfidences == { <<0, 0, 0>>, <<4096, 4096, 0>>, <<-600, 9000, 300>> }

FuseInit ==
    \E z \in FuseDepths, c \in FuseConfidences,
       temperature \in {0, 1, 2, 4}, floor \in {1, 64}, cap \in {4096, 6144},
       eps \in {0, 1, 4096} :
        LET zh(k) == z[1] + 37 * (k % 7)
            zv(k) == z[2] - 53 * (k % 5)
            ch(k) == c[1] + c[3] * (k % 11)
            cv(k) == c[2] - c[3] * (k % 13)
        IN  fuse = [pc |-> "args",
                    Z_h |-> MapBlob(zh), Z_v |-> MapBlob(zv),
                    C_h |-> MapBlob(ch), C_v |-> MapBlob(cv),
                    temperature |-> temperature, floor |-> floor,
                    cap |-> cap, eps |-> eps, out |-> NoCall]

Fuse ==
    /\ fuse.pc = "args"
    /\ fuse' = [fuse EXCEPT !.pc = "done",
                  !.out = BM_fuse_disparity_precision(
                            fuse.Z_h, fuse.Z_v, fuse.C_h, fuse.C_v,
                            fuse.temperature, fuse.floor, fuse.cap, fuse.eps)]
    /\ UNCHANGED <<codec, fx, box, est, fixq, cross, epis, units>>

InitFuse ==
    /\ FuseInit
    /\ codec = Idle /\ fx = Idle /\ box = Idle /\ est = Idle
    /\ fixq = Idle /\ cross = Idle /\ epis = Idle /\ units = Idle

NextFuse == Fuse

SpecFuse == InitFuse /\ [][NextFuse]_vars

(***************************************************************************)
(* Fusion: properties                                                      *)
(***************************************************************************)
\* pixel k of the output lies between the two inputs of that pixel
WithinInputs(k) ==
    LET zh == BlobSample(fuse.Z_h, k)
        zv == BlobSample(fuse.Z_v, k)
        z == BlobSample(fuse.out.val, k)
    IN  Min(zh, zv) <= z /\ z <= Max(zh, zv)

\* C9: for every pixel and every admissible temperature, floor, cap and eps
\* the decoded output z of fuse_disparity_precision satisfies
\* min(z_h, z_v) <= z <= max(z_h, z_v).
C9_FusionBounds ==
    fuse.pc = "done"
      => /\ fuse.out.exc = "none"
         /\ \A k \in 0..(N_IMG - 1) : WithinInputs(k)

\* the default parameters on two all-zero depth maps
C9_DefaultsOnZero ==
    (fuse.pc = "done" /\ fuse.temperature = 4 /\ fuse.floor = 1
       /\ fuse.cap = 4096 /\ fuse.eps = 1
       /\ BlobSample(fuse.Z_h, 0) = 0 /\ BlobSample(fuse.Z_v, 0) = 0)
      => BlobSample(fuse.out.val, 0) = 2048

(***************************************************************************)
(* Angular ramp: properties                                                *)
(***************************************************************************)
\* u24 sample (a, x, c) of an EPI blob of n positions
EpiSample(blob, n, a, x, c) ==
    u24_read(imbg_parse_payload(blob), ((a * n + x) * 9) + c * 3)

\* the per-row step of an EPI that is a linear ramp along the angular axis
RampStep(blob, n) == EpiSample(blob, n, 1, 0, 0) - EpiSample(blob, n, 0, 0, 0)

\* every angular row is spatially constant and consecutive rows differ by
\* the same non-zero step
AngularRamp(blob, n, A) ==
    /\ RampStep(blob, n) # 0
    /\ \A a \in 0..(A - 1), x \in 0..(n - 1), c \in 0..2 :
         EpiSample(blob, n, a, x, c)
           = EpiSample(blob, n, 0, 0, c) + a * RampStep(blob, n)

\* (1 + du/ds) * (1/d) in Q12.12, from the rounded quotients
RampDisparity == Shr12((Q_ONE + BM_div_q12(est.du, est.ds)) * BM_inv_q12(est.d))

\* C11: for a horizontal EPI that is a linear angular ramp with zero spatial
\* gradient, the slope term of compute_horizontal_from_epis is du/ds, so the
\* output disparity of that row is (1 + du/ds) * (1/d) to fixed-point
\* rounding (one LSB).
C11_AngularRamp ==
    (est.pc = "disp" /\ est.Z_h.exc = "none" /\ est.ds # 0 /\ est.d # 0)
      => \A y \in 1..est.H :
           AngularRamp(est.epi_h[y], est.W, est.A)
             => \A x \in 0..(est.W - 1) :
                  abs_i32(BlobSample(est.Z_h.val, (y - 1) * est.W + x)
                            - RampDisparity) <= 1

\* what the code returns on such a row: the slope term is 0 (S_uv = 0) and
\* the rounding term adds one half, whatever du/ds is
C11_RampGivesOneAndAHalf ==
    (est.pc = "disp" /\ est.Z_h.exc = "none")
      => \A y \in 1..est.H :
           AngularRamp(est.epi_h[y], est.W, est.A)
             => \A x \in 0..(est.W - 1) :
                  BlobSample(est.Z_h.val, (y - 1) * est.W + x)
                    = Shr12((Q_ONE + 2048) * BM_inv_q12(est.d))

(***************************************************************************)
(* Confidence as a mean of absolute differences: properties                *)
(***************************************************************************)
\* x / 2 rounded to nearest, ties away from zero
HalfAwayFromZero(x) == IF x >= 0 THEN (x + 1) \div 2 ELSE -(((-x) + 1) \div 2)

\* the sum over a in 1..A-2 of |half(L[a+1][x] - L[a-1][x])|, on channel c
\* of an EPI of n positions
SumAbsDiff(blob, n, A, x, c) ==
    LET absd(a) == abs_i32(HalfAwayFromZero(EpiSample(blob, n, a + 1, x, c)
                                              - EpiSample(blob, n, a - 1, x, c)))
    IN  SumSeq([a \in 1..(A - 2) |-> absd(a)])

\* (that sum + (A-2)//2) // (A-2), for A >= 3
MeanAbsDiff(blob, n, A, x, c) ==
    (SumAbsDiff(blob, n, A, x, c) + ((A - 2) \div 2)) \div (A - 2)

\* the largest value a biased 24-bit sample decodes to
Q_MAX == U24_MAX - BIAS_INT

\* C12 as stated: for A >= 3 the decoded confidence of every pixel is the
\* rounded mean of the absolute interior angular differences; C_v[y][x] is
\* taken from position y of the vertical EPI of column x; a linear angular
\* ramp of step s gives confidence s.
C12_MeanAbsExact ==
    (est.pc = "conf" /\ est.A >= 3 /\ est.out.exc = "none")
      => \A y \in 0..(est.H - 1), x \in 0..(est.W - 1) :
           /\ BlobSample(est.out.val.C_h, y * est.W + x)
                = MeanAbsDiff(est.epi_h[y + 1], est.W, est.A, x, est.channel)
           /\ BlobSample(est.out.val.C_v, y * est.W + x)
                = MeanAbsDiff(est.epi_v[x + 1], est.H, est.A, y, est.channel)

\* C12, amended: the decoded confidence is that mean saturated at the largest
\* representable value, 8388607; a linear angular ramp of step s gives
\* confidence |s|.
C12_MeanAbsSaturated ==
    (est.pc = "conf" /\ est.A >= 3 /\ est.out.exc = "none")
      => \A y \in 0..(est.H - 1), x \in 0..(est.W - 1) :
           /\ BlobSample(est.out.val.C_h, y * est.W + x)
                = Min(MeanAbsDiff(est.epi_h[y + 1], est.W, est.A, x,
                                  est.channel), Q_MAX)
           /\ BlobSample(est.out.val.C_v, y * est.W + x)
                = Min(MeanAbsDiff(est.epi_v[x + 1], est.H, est.A, y,
                                  est.channel), Q_MAX)
           /\ AngularRamp(est.epi_h[y + 1], est.W, est.A)
                => BlobSample(est.out.val.C_h, y * est.W + x)
                     = abs_i32(RampStep(est.epi_h[y + 1], est.W))
           /\ AngularRamp(est.epi_v[x + 1], est.H, est.A)
                => BlobSample(est.out.val.C_v, y * est.W + x)
                     = abs_i32(RampStep(est.epi_v[x + 1], est.H))

\* a mean that needs the rounding term, and column/row roles that differ
C12_Witness ==
    /\ est.pc = "conf" /\ est.by = "BM" /\ est.A = EPI_UV
    /\ est.out.exc = "none"
    /\ \E y \in 0..(WH_SIZE - 1), x \in 0..(WH_SIZE - 1) :
         /\ BlobSample(est.out.val.C_h, y * WH_SIZE + x)
              = MeanAbsDiff(est.epi_h[y + 1], WH_SIZE, EPI_UV, x, est.channel)
         /\ BlobSample(est.out.val.C_h, y * WH_SIZE + x) * DEMONINATOR
              > SumAbsDiff(est.epi_h[y + 1], WH_SIZE, EPI_UV, x, est.channel)
    /\ BlobSample(est.out.val.C_v, 1) # BlobSample(est.out.val.C_v, WH_SIZE)
    /\ BlobSample(est.out.val.C_v, 1)
         = MeanAbsDiff(est.epi_v[2], WH_SIZE, EPI_UV, 0, est.channel)

\* the confidence that saturates: a mean of exactly 2048.0
C12_SaturatedWitness ==
    /\ est.pc = "conf" /\ est.A = 3 /\ est.out.exc = "none"
    /\ MeanAbsDiff(est.epi_h[1], est.W, 3, 0, est.channel) = Q_MAX + 1
    /\ BlobSample(est.out.val.C_h, 0) = Q_MAX

(***************************************************************************)
(* Zero denominators in the disparity estimators: properties               *)
(***************************************************************************)
\* numerators tried against a zero denominator
ZeroDenNumerators == {-U24_MAX, -Q_ONE, -1, 0, 1, 2048, Q_ONE, U24_MAX}

\* C13: _div_q12(n, 0) is 0 for every n and _inv_q12(0) is 0, and
\* compute_horizontal_from_epis / compute_vertical_from_epis called with
\* d = 0 or ds = 0 (dt = 0) return a map and raise nothing.
C13_ZeroDenominator ==
    /\ \A n \in ZeroDenNumerators : BM_div_q12(n, 0) = 0
    /\ BM_inv_q12(0) = 0
    /\ (est.pc \in {"disp", "done"} /\ est.by = "BM"
          /\ (est.d = 0 \/ est.ds = 0 \/ est.dt = 0))
         => /\ est.Z_h.exc = "none"
            /\ est.ds = 0 => BM_div_q12(est.du, est.ds) = 0
            /\ est.d = 0 => BM_inv_q12(est.d) = 0
            /\ est.pc = "done"
                 => /\ est.Z_v.exc = "none"
                    /\ est.dt = 0 => BM_div_q12(est.dv, est.dt) = 0

\* both estimators have returned for d = 0 and ds = dt = 0 on an image
\* that has rows with angular variation, whose weights are positive
C13_Witness ==
    /\ est.pc = "done" /\ est.by = "BM"
    /\ est.d = 0 /\ est.ds = 0 /\ est.dt = 0
    /\ est.Z_h.exc = "none" /\ est.Z_v.exc = "none"
    /\ ~NoAngularVariation(est.epi_h[2], WH_SIZE, EPI_UV)
    /\ ~MapRowIsZero(est.out.val.C_h, 1, WH_SIZE)
    /\ MapRowIsZero(est.Z_h.val, 1, WH_SIZE)
    /\ MapRowIsZero(est.Z_v.val, 1, WH_SIZE)

(***************************************************************************)
(* _div_q12 and _inv_q12 on their own: the calls                           *)
(***************************************************************************)
MaxNum == 9

MaxDen == 9

\* small integers, and the same in units of half of 1.0
DivNumerators == (-MaxNum..MaxNum) \cup {2048 * k : k \in -MaxNum..MaxNum}

DivDenominators == (-MaxDen..MaxDen) \cup {2048 * k : k \in -MaxDen..MaxDen}

DivInit ==
    \E n \in DivNumerators, d \in DivDenominators :
        fixq = [pc |-> "args", num |-> n, den |-> d, out |-> NoCall]

DivQ12 ==
    /\ fixq.pc = "args"
    /\ fixq' = [fixq EXCEPT !.pc = "div",
                  !.out = Ret(BM_div_q12(fixq.num, fixq.den))]
    /\ UNCHANGED <<codec, fx, box, est, fuse, cross, epis, units>>

InvQ12 ==
    /\ fixq.pc = "args"
    /\ fixq' = [fixq EXCEPT !.pc = "inv",
                  !.out = Ret(BM_inv_q12(fixq.den))]
    /\ UNCHANGED <<codec, fx, box, est, fuse, cross, epis, units>>

InitDiv ==
    /\ DivInit
    /\ codec = Idle /\ fx = Idle /\ box = Idle /\ est = Idle /\ fuse = Idle
    /\ cross = Idle /\ epis = Idle /\ units = Idle

NextDiv == DivQ12 \/ InvQ12

SpecDiv == InitDiv /\ [][NextDiv]_vars

(***************************************************************************)
(* _div_q12 and _inv_q12 on their own: properties                          *)
(***************************************************************************)
\* r is an integer nearest to a / b (b # 0): |r * b - a| <= |b| / 2
Nearest(r, a, b) == 2 * abs_i32(r * b - a) <= abs_i32(b)

\* C19: _div_q12(n, d) is the integer nearest to n * 4096 / d for every n
\* and every non-zero d of either sign, and is odd in the numerator:
\* _div_q12(-n, d) = -_div_q12(n, d).
C19_DivNearest ==
    (fixq.pc = "div" /\ fixq.den # 0)
      => /\ fixq.out.exc = "none"
         /\ Nearest(fixq.out.val, Shl12(fixq.num), fixq.den)
         /\ BM_div_q12(-fixq.num, fixq.den) = -fixq.out.val

\* the same for positive denominators only
C19_DivNearestPositive ==
    (fixq.pc = "div" /\ fixq.den > 0)
      => /\ fixq.out.exc = "none"
         /\ Nearest(fixq.out.val, Shl12(fixq.num), fixq.den)
         /\ BM_div_q12(-fixq.num, fixq.den) = -fixq.out.val

\* a quotient that is not exact and is rounded away from its floor
C19_PositiveWitness ==
    /\ fixq.pc = "div" /\ fixq.den = 7 /\ fixq.num = -5
    /\ fixq.out.val = -2926

(***************************************************************************)
(* cross.py (both variants) : _reflect_index                               *)
(*                                                                         *)
(* cross holds the loop variable i of one call _reflect_index(i0, n) and   *)
(* whether the call has returned.  One action per branch of the loop body. *)
(***************************************************************************)
MaxAxis == 4

MaxIndex == 9

\* i = (2 * n - 2) - i   (Bit_Manipulation: ((n << 1) - 2) - i)
reflect_fold(i, n) == (Shl(n, 1) - 2) - i

\* while i < 0 or i >= n
reflect_out_of_range(i, n) == i < 0 \/ i >= n

ReflectInit ==
    \E n \in 1..MaxAxis, i \in (-MaxIndex)..MaxIndex :
        cross = [pc |-> "loop", i0 |-> i, n |-> n, i |-> i]

ReflectNegate ==
    /\ cross.pc = "loop"
    /\ reflect_out_of_range(cross.i, cross.n)
    /\ cross.i < 0
    /\ cross' = [cross EXCEPT !.i = -cross.i]
    /\ UNCHANGED <<codec, fx, box, est, fuse, fixq, epis, units>>

ReflectFold ==
    /\ cross.pc = "loop"
    /\ reflect_out_of_range(cross.i, cross.n)
    /\ ~(cross.i < 0)
    /\ cross' = [cross EXCEPT !.i = reflect_fold(cross.i, cross.n)]
    /\ UNCHANGED <<codec, fx, box, est, fuse, fixq, epis, units>>

ReflectReturn ==
    /\ cross.pc = "loop"
    /\ ~reflect_out_of_range(cross.i, cross.n)
    /\ cross' = [cross EXCEPT !.pc = "returned"]
    /\ UNCHANGED <<codec, fx, box, est, fuse, fixq, epis, units>>

InitReflect ==
    /\ ReflectInit
    /\ codec = Idle /\ fx = Idle /\ box = Idle /\ est = Idle /\ fuse = Idle
    /\ fixq = Idle /\ epis = Idle /\ units = Idle

NextReflect == ReflectNegate \/ ReflectFold \/ ReflectReturn

\* the interpreter keeps executing a loop that can take a step
SpecReflect == InitReflect /\ [][NextReflect]_vars /\ WF_vars(NextReflect)

(***************************************************************************)
(* _reflect_index : properties                                             *)
(***************************************************************************)
\* the value returned is in [0, n) and is i0 itself when i0 is in range
ReflectResultOk ==
    /\ cross.i \in 0..(cross.n - 1)
    /\ cross.i0 \in 0..(cross.n - 1) => cross.i = cross.i0

\* C20: for every axis length n >= 1 and every integer i,
\* _reflect_index(i, n) terminates and returns a value in [0, n), which is
\* i itself when 0 <= i < n.
C20_ReflectTerminatesInRange ==
    <>(cross.pc = "returned" /\ ReflectResultOk)

\* whenever the call returns, its value is as claimed
C20_ReflectReturnsInRange ==
    cross.pc = "returned" => ReflectResultOk

\* for an axis of length 1 and an index other than 0 the call never returns
C20_AxisOneNeverReturns ==
    (cross.pc = "loop" /\ cross.n = 1 /\ cross.i0 # 0)
      => /\ reflect_out_of_range(cross.i, cross.n)
         /\ cross.i \in {cross.i0, -cross.i0}

\* for an axis of length 2 or more the call returns
C20_ReflectTerminatesFromTwo ==
    (cross.n >= 2) ~> (cross.pc = "returned" /\ ReflectResultOk)

(***************************************************************************)
(* cross.py : the low-pass stage                                           *)
(***************************************************************************)
RECURSIVE reflect_index(_, _)
\* _reflect_index as a function; it has a value for n >= 2 (and for n = 1
\* at i = 0 only, see the loop above)
reflect_index(i, n) ==
    IF ~reflect_out_of_range(i, n) THEN i
    ELSE IF i < 0 THEN reflect_index(-i, n)
    ELSE reflect_index(reflect_fold(i, n), n)

\* kernel 3 with a centre weight of 5 and the same constant
NL_KERNELS_heavy(kernel_size) ==
    IF kernel_size = 3
    THEN << << <<1, 2, 1>>, <<2, 5, 2>>, <<1, 2, 1>> >>, 16 >>
    ELSE << [dy \in 1..kernel_size |-> [dx \in 1..kernel_size |-> 1]],
            kernel_size * kernel_size >>

\* No_Libraries _KERNELS: integer weights and their sum
NL_KERNELS(kernel_size) ==
    IF kernel_size = 3
    THEN << << <<1, 2, 1>>, <<2, 4, 2>>, <<1, 2, 1>> >>, 16 >>
    ELSE IF kernel_size = 5
    THEN << << <<1, 2, 2, 2, 1>>, <<2, 4, 4, 4, 2>>, <<2, 4, 4, 4, 2>>,
               <<2, 4, 4, 4, 2>>, <<1, 2, 2, 2, 1>> >>, 64 >>
    ELSE << << <<1, 1, 2, 2, 2, 1, 1>>, <<1, 2, 4, 4, 4, 2, 1>>,
               <<2, 4, 4, 4, 4, 4, 2>>, <<2, 4, 4, 4, 4, 4, 2>>,
               <<2, 4, 4, 4, 4, 4, 2>>, <<1, 2, 4, 4, 4, 2, 1>>,
               <<1, 1, 2, 2, 2, 1, 1>> >>, 128 >>

\* Bit_Manipulation _KERNELS: exponents and the normalising shift
BM_KERNELS(kernel_size) ==
    IF kernel_size = 3
    THEN << << <<0, 1, 0>>, <<1, 2, 1>>, <<0, 1, 0>> >>, 4 >>
    ELSE IF kernel_size = 5
    THEN << << <<0, 1, 1, 1, 0>>, <<1, 2, 2, 2, 1>>, <<1, 2, 2, 2, 1>>,
               <<1, 2, 2, 2, 1>>, <<0, 1, 1, 1, 0>> >>, 6 >>
    ELSE << << <<0, 0, 1, 1, 1, 0, 0>>, <<0, 1, 2, 2, 2, 1, 0>>,
               <<1, 2, 2, 2, 2, 2, 1>>, <<1, 2, 2, 2, 2, 2, 1>>,
               <<1, 2, 2, 2, 2, 2, 1>>, <<0, 1, 2, 2, 2, 1, 0>>,
               <<0, 0, 1, 1, 1, 0, 0>> >>, 7 >>

HW_X3 == WH_SIZE * WH_SIZE * 3

WH_X9 == WH_SIZE * WH_SIZE * 9

\* No_Libraries _convolve_u8_rgb; W, H >= 2
NL_convolve_u8_rgb(raw, W, H, K, kernel_sum) ==
    LET k == Len(K)
        p == k \div 2
        half == kernel_sum \div 2
        src(y, x, dy, dx, c) ==
            (reflect_index(y + dy - 1 - p, H) * W
               + reflect_index(x + dx - 1 - p, W)) * 3 + c
        short == \E y \in 0..(H - 1), x \in 0..(W - 1), dy \in 1..k,
                    dx \in 1..k : src(y, x, dy, dx, 2) >= Len(raw)
        acc(y, x, c) ==
            SumSeq([t \in 1..(k * k) |->
              LET dy == ((t - 1) \div k) + 1
                  dx == ((t - 1) % k) + 1
              IN  raw[src(y, x, dy, dx, c) + 1] * K[dy][dx]])
        v(y, x, c) == Clamp((acc(y, x, c) + half) \div kernel_sum, 0, 255)
    IN  IF short THEN Raise("IndexError")
        ELSE Ret(Tab([j \in 1..(H * W * 3) |->
                   v(((j - 1) \div 3) \div W, ((j - 1) \div 3) % W,
                     (j - 1) % 3)]))

\* Bit_Manipulation _convolve_u8_rgb: rows are WH_SIZE samples apart
\* whatever W is, and the output always has HW_X3 bytes; 2 <= W, H
BM_convolve_u8_rgb(raw, W, H, E, norm_shift) ==
    LET k == Len(E)
        p == k \div 2
        src(y, x, dy, dx, c) ==
            (Shl(reflect_index(y + dy - 1 - p, H), WH_SHIFT)
               + reflect_index(x + dx - 1 - p, W)) * 3 + c
        short == \/ \E y \in 0..(H - 1), x \in 0..(W - 1), dy \in 1..k,
                       dx \in 1..k : src(y, x, dy, dx, 2) >= Len(raw)
                 \/ (Shl(H - 1, WH_SHIFT) + (W - 1)) * 3 + 2 >= HW_X3
        acc(y, x, c) ==
            SumSeq([t \in 1..(k * k) |->
              LET dy == ((t - 1) \div k) + 1
                  dx == ((t - 1) % k) + 1
              IN  Shl(raw[src(y, x, dy, dx, c) + 1], E[dy][dx])])
        v(y, x, c) == Min(acc(y, x, c) \div (2 ^ norm_shift), 255)
    IN  IF short THEN Raise("IndexError")
        ELSE Ret(Tab([j \in 1..HW_X3 |->
                   LET y == ((j - 1) \div 3) \div WH_SIZE
                       x == ((j - 1) \div 3) % WH_SIZE
                   IN  IF y < H /\ x < W THEN v(y, x, (j - 1) % 3)
                       ELSE 0]))

\* _u8_rgb_to_q12_12_u24_payload: each byte b becomes the u24 of
\* b * Q_SCALE + BIAS_INT, clamped
u8_sample_u24(b) == Clamp(b * Q_SCALE + BIAS_INT, 0, U24_MAX)

\* No_Libraries: the output has W * H * 9 bytes; a longer input ends in
\* IndexError
NL_u8_rgb_to_q12_12_u24_payload(raw_u8_rgb, W, H) ==
    IF Len(raw_u8_rgb) > W * H * 3 THEN Raise("IndexError")
    ELSE Ret(PackedSeq(Tab([j \in 1..(W * H * 3) |->
               IF j <= Len(raw_u8_rgb) THEN u8_sample_u24(raw_u8_rgb[j])
               ELSE 0])))

\* Bit_Manipulation: the output has WH_X9 bytes
BM_u8_rgb_to_q12_12_u24_payload(raw_u8_rgb, W, H) ==
    IF Len(raw_u8_rgb) > HW_X3 THEN Raise("IndexError")
    ELSE Ret(PackedSeq(Tab([j \in 1..HW_X3 |->
               IF j <= Len(raw_u8_rgb) THEN u8_sample_u24(raw_u8_rgb[j])
               ELSE 0])))

\* Bit_Manipulation imgb_parse_wh_payload: no test of any kind
BM_imgb_parse_wh_payload(buf) ==
    <<u32_le(buf, 4), u32_le(buf, 8), SubSeq(buf, 17, Len(buf))>>

\* the body of the "for name in names" loop of
\* multiply_and_accumulate_low_pass_filter: the blob saved, or the exception
NL_low_pass_frame(blob, kernel_size) ==
    LET parsed == NL_imgb_parse(blob)
    IN  IF parsed.exc # "none" THEN parsed
        ELSE LET W == parsed.val[1]
                 H == parsed.val[2]
                 C == parsed.val[3]
                 dtype_code == parsed.val[4]
                 payload == parsed.val[5]
             IN  IF dtype_code # 1 \/ C # 3 THEN Raise("ValueError")
                 ELSE LET KS == NL_KERNELS(kernel_size)
                          blurred_u8 == NL_convolve_u8_rgb(payload, W, H,
                                                           KS[1], KS[2])
                      IN  IF blurred_u8.exc # "none" THEN blurred_u8
                          ELSE LET out_payload ==
                                     NL_u8_rgb_to_q12_12_u24_payload(
                                       blurred_u8.val, W, H)
                               IN  IF out_payload.exc # "none"
                                   THEN out_payload
                                   ELSE NL_imgb_make(W, H, 3, 4,
                                                     out_payload.val)

\* the body of the loop of bit_shift_low_pass_filter
BM_low_pass_frame(blob, kernel_size) ==
    LET parsed == BM_imgb_parse_wh_payload(blob)
        W == parsed[1]
        H == parsed[2]
        payload == parsed[3]
        ES == BM_KERNELS(kernel_size)
        blurred_u8 == BM_convolve_u8_rgb(payload, W, H, ES[1], ES[2])
    IN  IF blurred_u8.exc # "none" THEN blurred_u8
        ELSE LET out_payload ==
                   BM_u8_rgb_to_q12_12_u24_payload(blurred_u8.val, W, H)
             IN  IF out_payload.exc # "none" THEN out_payload
                 ELSE BM_imgb_make(W, H, 3, 4, out_payload.val)

(***************************************************************************)
(* The low-pass stage: the calls                                           *)
(*                                                                         *)
(* cross.frames are the .imgb files of in_dir in the order of their        *)
(* names, cross.saved the files of out_dir (<<>> for a name not written),  *)
(* cross.k the frames dealt with so far.  One action per frame.            *)
(***************************************************************************)
NumFrames == 2

\* <<channel count, encoding>> of a frame as written in its header; the
\* payload has the size the header implies
FrameKinds == { <<3, 1>>, <<3, 4>>, <<1, 1>>, <<4, 1>>, <<3, 2>> }

FrameBlob(W, H, kind, seed) ==
    header(W, H, kind[1], kind[2])
      \o PayloadOf(W * H * kind[1] * bytes_per_sample(kind[2]), seed)

LowPassInit ==
    \E by \in Variants, kernel_size \in {3, 5},
       kinds \in [1..NumFrames -> FrameKinds],
       geom \in {<<2, 2>>, <<3, 2>>, <<WH_SIZE, WH_SIZE>>} :
        /\ by = "BM" => geom = <<WH_SIZE, WH_SIZE>>
        /\ by = "NL" => geom # <<WH_SIZE, WH_SIZE>>
        /\ cross = [pc |-> "frames", by |-> by, kernel_size |-> kernel_size,
                    frames |-> [j \in 1..NumFrames |->
                                  FrameBlob(geom[1], geom[2], kinds[j], j)],
                    saved |-> [j \in 1..NumFrames |-> <<>>],
                    k |-> 0, exc |-> "none"]

LowPassFrame(v) ==
    /\ cross.pc = "frames"
    /\ cross.by = v
    /\ cross.k < Len(cross.frames)
    /\ LET out_blob == IF v = "NL"
                       THEN NL_low_pass_frame(cross.frames[cross.k + 1],
                                              cross.kernel_size)
                       ELSE BM_low_pass_frame(cross.frames[cross.k + 1],
                                              cross.kernel_size)
       IN  cross' = IF out_blob.exc # "none"
                    THEN [cross EXCEPT !.pc = "raised", !.exc = out_blob.exc]
                    ELSE [cross EXCEPT !.k = cross.k + 1,
                                       !.saved[cross.k + 1] = out_blob.val]
    /\ UNCHANGED <<codec, fx, box, est, fuse, fixq, epis, units>>

LowPassFrameNL == LowPassFrame("NL")

LowPassFrameBM == LowPassFrame("BM")

LowPassReturn ==
    /\ cross.pc = "frames"
    /\ cross.k = Len(cross.frames)
    /\ cross' = [cross EXCEPT !.pc = "returned"]
    /\ UNCHANGED <<codec, fx, box, est, fuse, fixq, epis, units>>

InitLowPass ==
    /\ LowPassInit
    /\ codec = Idle /\ fx = Idle /\ box = Idle /\ est = Idle /\ fuse = Idle
    /\ fixq = Idle /\ epis = Idle /\ units = Idle

NextLowPass == LowPassFrameNL \/ LowPassFrameBM \/ LowPassReturn

SpecLowPass == InitLowPass /\ [][NextLowPass]_vars

(***************************************************************************)
(* The low-pass stage: properties                                          *)
(***************************************************************************)
\* the frame's header says its encoding is not 1 or its channels are not 3
NotU8Rgb(blob) == blob[14] # 1 \/ blob[13] # 3

\* the stage stops with an error at every frame that is not u8 RGB and
\* writes nothing for it
LowPassRejects ==
    \A j \in 1..Len(cross.frames) :
        NotU8Rgb(cross.frames[j])
          => /\ cross.saved[j] = <<>>
             /\ cross.k < j
             /\ cross.pc # "returned"

\* C14: the low-pass stage of every integer-only variant fails with an
\* error, writing no output blob for that frame, whenever an input frame's
\* encoding is not 1 or its channel count is not 3.
C14_LowPassRejects ==
    cross.pc \in {"frames", "raised", "returned"} => LowPassRejects

\* the same for No_Libraries alone
C14_LowPassRejectsNL ==
    (cross.pc \in {"frames", "raised", "returned"} /\ cross.by = "NL")
      => LowPassRejects

\* No_Libraries has written the first frame and stopped at the second
C14_WitnessNL ==
    /\ cross.pc = "raised" /\ cross.by = "NL" /\ cross.exc = "ValueError"
    /\ cross.k = 1 /\ cross.saved[1] # <<>> /\ cross.saved[2] = <<>>
    /\ NotU8Rgb(cross.frames[2])

(***************************************************************************)
(* EPIs.py : load_cross_crops and build_epis_imgb_in_memory                *)
(***************************************************************************)
ROW_BYTES_X9 == EPI_ROW_BYTES * EPI_UV

Zeros(n) == [j \in 1..n |-> 0]

\* an assignment that appends data instead of replacing the slice
SliceAssignAppend(out, i, n, data) == out \o data

\* out[i:i+n] = data on a bytearray: the slice is clipped to the array and
\* replaced by data, whatever the length of data
SliceAssign(out, i, n, data) ==
    LET lo == Min(i, Len(out))
        hi == Min(i + n, Len(out))
    IN  SubSeq(out, 1, lo) \o data \o SubSeq(out, hi + 1, Len(out))

RECURSIVE CopyRows(_, _, _, _, _, _)
\* for u in range(U): out[out_i:out_i + row_bytes] =
\*     frame[row_base:row_base + row_bytes]; out_i += row_bytes
CopyRows(out, out_i, stack, u, row_base, row_bytes) ==
    IF u > Len(stack) THEN out
    ELSE LET next == SliceAssign(out, out_i, row_bytes,
                                 Slice(stack[u], row_base, row_bytes))
         IN  \* the test makes the model checker compute next before it
             \* goes on
             IF Len(next) < 0 THEN <<>>
             ELSE CopyRows(next, out_i + row_bytes, stack, u + 1, row_base,
                           row_bytes)

RECURSIVE CopyColumn(_, _, _, _, _, _)
\* for _ in range(n): out[out_i:out_i + 9] = frame[src:src + 9];
\*     out_i += 9; src += row_bytes
CopyColumn(out, out_i, frame, src, n, row_bytes) ==
    IF n = 0 THEN out
    ELSE LET next == SliceAssign(out, out_i, BYTES_PER_PIXEL_RGB,
                                 Slice(frame, src, BYTES_PER_PIXEL_RGB))
         IN  IF Len(next) < 0 THEN <<>>
             ELSE CopyColumn(next, out_i + BYTES_PER_PIXEL_RGB, frame,
                             src + row_bytes, n - 1, row_bytes)

RECURSIVE CopyColumns(_, _, _, _, _, _, _)
\* for v in range(V): the column of frame v_stack[v]
CopyColumns(out, out_i, stack, v, col_off, n, row_bytes) ==
    IF v > Len(stack) THEN out
    ELSE LET next == CopyColumn(out, out_i, stack[v], col_off, n, row_bytes)
         IN  IF Len(next) < 0 THEN <<>>
             ELSE CopyColumns(next, out_i + n * BYTES_PER_PIXEL_RGB, stack,
                              v + 1, col_off, n, row_bytes)

\* the first failure of a sequence of call results, or all their values
AllRet(rs) ==
    IF \E j \in 1..Len(rs) : rs[j].exc # "none"
    THEN Raise((rs[CHOOSE j \in 1..Len(rs) :
                     /\ rs[j].exc # "none"
                     /\ \A l \in 1..(j - 1) : rs[l].exc = "none"]).exc)
    ELSE Ret([j \in 1..Len(rs) |-> rs[j].val])

\* No_Libraries load_cross_crops on the h_ and v_ files in name order:
\* <<h_stack, v_stack, <<H, W, U, V>> >>
NL_load_cross_crops(h_files, v_files) ==
    LET parsed == NL_imgb_parse(h_files[1])
    IN  IF parsed.exc # "none" THEN parsed
        ELSE IF parsed.val[4] # 4 \/ parsed.val[3] # 3
        THEN Raise("ValueError")
        ELSE Ret(<< [u \in 1..Len(h_files) |-> imbg_parse_payload(h_files[u])],
                    [v \in 1..Len(v_files) |-> imbg_parse_payload(v_files[v])],
                    <<parsed.val[2], parsed.val[1], Len(h_files),
                      Len(v_files)>> >>)

\* Bit_Manipulation load_cross_crops
BM_load_cross_crops(h_files, v_files) ==
    LET parsed == BM_imgb_parse_wh_payload(h_files[1])
    IN  Ret(<< [u \in 1..Len(h_files) |-> imbg_parse_payload(h_files[u])],
               [v \in 1..Len(v_files) |-> imbg_parse_payload(v_files[v])],
               <<parsed[2], parsed[1], Len(h_files), Len(v_files)>> >>)

\* No_Libraries build_epis_imgb_in_memory with y_rows = range(H) and
\* x_cols = range(W): <<epi_h_imgb, epi_v_imgb>>
NL_build_epis_imgb_in_memory(h_stack, v_stack, dims) ==
    LET H == dims[1]
        W == dims[2]
        U == dims[3]
        V == dims[4]
        row_bytes == W * BYTES_PER_PIXEL_RGB
        epi_h == [y \in 1..H |->
                   NL_imgb_make(W, U, 3, 4,
                     CopyRows(Zeros(U * row_bytes), 0, h_stack, 1,
                              (y - 1) * row_bytes, row_bytes))]
        epi_v == [x \in 1..W |->
                   NL_imgb_make(H, V, 3, 4,
                     CopyColumns(Zeros(V * H * BYTES_PER_PIXEL_RGB), 0,
                                 v_stack, 1, (x - 1) * BYTES_PER_PIXEL_RGB,
                                 H, row_bytes))]
        hs == AllRet(epi_h)
        vs == AllRet(epi_v)
    IN  IF hs.exc # "none" THEN hs
        ELSE IF vs.exc # "none" THEN vs
        ELSE Ret(<<hs.val, vs.val>>)

\* Bit_Manipulation build_epis_imgb_in_memory: rows are EPI_ROW_BYTES long
\* and the buffers ROW_BYTES_X9, whatever the dimensions are
BM_build_epis_imgb_in_memory(h_stack, v_stack, dims) ==
    LET cross_h == dims[1]
        cross_w == dims[2]
        U == dims[3]
        V == dims[4]
        epi_h == [y \in 1..cross_h |->
                   BM_imgb_make(cross_w, U, 3, 4,
                     CopyRows(Zeros(ROW_BYTES_X9), 0, h_stack, 1,
                              (y - 1) * EPI_ROW_BYTES, EPI_ROW_BYTES))]
        epi_v == [x \in 1..cross_w |->
                   BM_imgb_make(cross_h, V, 3, 4,
                     CopyColumns(Zeros(ROW_BYTES_X9), 0, v_stack, 1,
                                 Shl(x - 1, 3) + (x - 1), cross_h,
                                 EPI_ROW_BYTES))]
    IN  Ret(<<[y \in 1..cross_h |-> epi_h[y].val],
              [x \in 1..cross_w |-> epi_v[x].val]>>)

(***************************************************************************)
(* The EPI builder: the calls                                              *)
(*                                                                         *)
(* epis.h_files and epis.v_files are the h_ and v_ frames of cross_dir in  *)
(* the order of their names.  load_cross_crops_and_build_epis_imgb calls   *)
(* load_cross_crops and hands what it returns, with every row and every    *)
(* column, to build_epis_imgb_in_memory.                                   *)
(***************************************************************************)
MaxViews == 3

\* how a frame differs from the common geometry:
\* <<width - W, height - H, channel count, encoding>>
SameFrame == <<0, 0, 3, 4>>

OddFrames == { <<1, 0, 3, 4>>, <<-1, 0, 3, 4>>, <<0, 1, 3, 4>>,
               <<0, -1, 3, 4>>, <<0, 0, 1, 4>>, <<0, 0, 4, 4>>,
               <<0, 0, 3, 1>>, <<0, 0, 3, 3>> }

CrossFrame(W, H, odd, seed) ==
    header(W + odd[1], H + odd[2], odd[3], odd[4])
      \o PayloadOf((W + odd[1]) * (H + odd[2]) * odd[3]
                     * bytes_per_sample(odd[4]), seed)

EpisInit ==
    \E by \in Variants, U \in 2..EPI_UV, V \in 2..EPI_UV,
       odd \in OddFrames \cup {SameFrame},
       where \in {"h", "v"}, first \in BOOLEAN :
        LET W == IF by = "NL" THEN 3 ELSE WH_SIZE
            H == IF by = "NL" THEN 2 ELSE WH_SIZE
            at == IF first THEN 1 ELSE IF where = "h" THEN U ELSE V
            kind(st, j) == IF st = where /\ j = at THEN odd ELSE SameFrame
        IN  /\ by = "NL" => U <= MaxViews /\ V <= MaxViews
            /\ by = "BM" => U = EPI_UV /\ V = EPI_UV
            /\ odd = SameFrame => where = "h" /\ first
            /\ epis = [pc |-> "args", by |-> by, W |-> W, H |-> H,
                       h_files |-> [j \in 1..U |->
                                      CrossFrame(W, H, kind("h", j), j)],
                       v_files |-> [j \in 1..V |->
                                      CrossFrame(W, H, kind("v", j), j + U)],
                       loaded |-> NoCall, out |-> NoCall]

LoadCrossCrops(v) ==
    /\ epis.pc = "args"
    /\ epis.by = v
    /\ LET r == IF v = "NL"
                THEN NL_load_cross_crops(epis.h_files, epis.v_files)
                ELSE BM_load_cross_crops(epis.h_files, epis.v_files)
       IN  epis' = [epis EXCEPT !.loaded = r,
                      !.pc = IF r.exc = "none" THEN "loaded" ELSE "failed",
                      !.out = IF r.exc = "none" THEN NoCall ELSE r]
    /\ UNCHANGED <<codec, fx, box, est, fuse, fixq, cross, units>>

LoadCrossCropsNL == LoadCrossCrops("NL")

LoadCrossCropsBM == LoadCrossCrops("BM")

BuildEpis(v) ==
    /\ epis.pc = "loaded"
    /\ epis.by = v
    /\ LET l == epis.loaded.val
       IN  epis' = [epis EXCEPT !.pc = "built",
                      !.out = IF v = "NL"
                              THEN NL_build_epis_imgb_in_memory(
                                     l[1], l[2], l[3])
                              ELSE BM_build_epis_imgb_in_memory(
                                     l[1], l[2], l[3])]
    /\ UNCHANGED <<codec, fx, box, est, fuse, fixq, cross, units>>

BuildEpisNL == BuildEpis("NL")

BuildEpisBM == BuildEpis("BM")

InitEpis ==
    /\ EpisInit
    /\ codec = Idle /\ fx = Idle /\ box = Idle /\ est = Idle /\ fuse = Idle
    /\ fixq = Idle /\ cross = Idle /\ units = Idle

NextEpis ==
    LoadCrossCropsNL \/ LoadCrossCropsBM \/ BuildEpisNL \/ BuildEpisBM

SpecEpis == InitEpis /\ [][NextEpis]_vars

(***************************************************************************)
(* The EPI builder: properties                                             *)
(***************************************************************************)
\* width, height, channel count and encoding in a frame's header
FrameShape(blob) == <<u32_le(blob, 4), u32_le(blob, 8), blob[13], blob[14]>>

AllFrames == {epis.h_files[j] : j \in 1..Len(epis.h_files)}
               \cup {epis.v_files[j] : j \in 1..Len(epis.v_files)}

\* some frame differs from another in width, height, channels or encoding
Mismatched == \E f \in AllFrames, g \in AllFrames : FrameShape(f) # FrameShape(g)

\* the builder has run to its end: load_cross_crops raised, or it returned
\* and build_epis_imgb_in_memory raised or returned
BuilderDone == epis.pc \in {"failed", "built"}

\* C15: the EPI builder fails with an error, returning no EPIs, whenever a
\* frame of the h_ or v_ stack differs from the others in width, height,
\* channel count or encoding.
C15_BuilderRejects ==
    (BuilderDone /\ Mismatched) => epis.out.exc \notin {"none", "nocall"}

\* the three bytes of sample (row, col, c) of a payload of rows n pixels wide
PaySample(pay, n, row, col, c) ==
    SubSeq(pay, ((row * n + col) * 9) + c * 3 + 1,
                ((row * n + col) * 9) + c * 3 + 3)

\* C16: on frames of one geometry the builder returns, for every row y, a
\* blob of width W, height U, 3 channels, encoding 4 whose sample (u, x, c)
\* is sample (y, x, c) of h_stack[u], and for every column x a blob of
\* width H, height V, 3 channels, encoding 4 whose sample (v, y, c) is
\* sample (y, x, c) of v_stack[v].
C16_ExactGather ==
    (epis.pc = "built" /\ ~Mismatched)
      => /\ epis.out.exc = "none"
         /\ Len(epis.out.val[1]) = epis.H
         /\ Len(epis.out.val[2]) = epis.W
         /\ \A y \in 0..(epis.H - 1) :
              LET blob == epis.out.val[1][y + 1]
              IN  /\ FrameShape(blob)
                       = <<epis.W, Len(epis.h_files), 3, 4>>
                  /\ \A u \in 0..(Len(epis.h_files) - 1),
                        x \in 0..(epis.W - 1), c \in 0..2 :
                       PaySample(imbg_parse_payload(blob), epis.W, u, x, c)
                         = PaySample(imbg_parse_payload(epis.h_files[u + 1]),
                                     epis.W, y, x, c)
         /\ \A x \in 0..(epis.W - 1) :
              LET blob == epis.out.val[2][x + 1]
              IN  /\ FrameShape(blob)
                       = <<epis.H, Len(epis.v_files), 3, 4>>
                  /\ \A v \in 0..(Len(epis.v_files) - 1),
                        y \in 0..(epis.H - 1), c \in 0..2 :
                       PaySample(imbg_parse_payload(blob), epis.H, v, y, c)
                         = PaySample(imbg_parse_payload(epis.v_files[v + 1]),
                                     epis.W, y, x, c)

\* EPIs were built from stacks of different sizes whose frames differ from
\* each other and from row to row
C16_Witness ==
    /\ epis.pc = "built" /\ ~Mismatched /\ epis.out.exc = "none"
    /\ epis.by = "NL"
    /\ Len(epis.h_files) # Len(epis.v_files)
    /\ epis.out.val[1][1] # epis.out.val[1][2]
    /\ epis.out.val[2][1] # epis.out.val[2][2]
    /\ PaySample(imbg_parse_payload(epis.out.val[2][2]), epis.H, 1, 1, 2)
         = PaySample(imbg_parse_payload(epis.v_files[2]), epis.W, 1, 1, 2)

\* the same with the compiled geometry
C16_WitnessBM ==
    /\ epis.pc = "built" /\ ~Mismatched /\ epis.out.exc = "none"
    /\ epis.by = "BM"
    /\ epis.out.val[1][1] # epis.out.val[1][2]
    /\ epis.out.val[2][1] # epis.out.val[2][2]

(***************************************************************************)
(* Per-row units of work (Bit_Manipulation): the steps                     *)
(*                                                                         *)
(* A unit is one iteration of a row loop (horizontal axis) or of a column  *)
(* loop (vertical axis): of compute_from_epis_with_diffs first, and, once  *)
(* that has returned its list of difference blobs, of                      *)
(* compute_horizontal_from_epis / compute_vertical_from_epis.  units holds *)
(* what the iterations share: the list C_q the confidences are written to, *)
(* the list dL the difference blobs are appended to, the list out_q the    *)
(* disparities are written to.  The code runs the units in ascending       *)
(* order; here the first FreeUnits of them run in any order, the others in *)
(* ascending order after them.                                             *)
(***************************************************************************)
FreeUnits == 3

AllUnits == 0..(WH_SIZE - 1)

\* the position in a map of value j of unit k: (k << WH_SHIFT) + j for a
\* row, (j << WH_SHIFT) + k for a column
UnitPos(axis, k, j) ==
    IF axis = "h" THEN Shl(k, WH_SHIFT) + j ELSE Shl(j, WH_SHIFT) + k

\* the unit that owns position i of a map
UnitOf(axis, i) == IF axis = "h" THEN i \div WH_SIZE ELSE i % WH_SIZE

\* the index within its unit of position i of a map
IndexInUnit(axis, i) == IF axis = "h" THEN i % WH_SIZE ELSE i \div WH_SIZE

\* angular and spatial variation that differ from unit to unit
UnitSample(tilt, k, a, j, c) ==
    BIAS_INT + (k + tilt) * a + 3 * j + a * j * (k + 1) + 100 * c

Eligible(done, k) ==
    /\ k \notin done
    /\ k >= FreeUnits => \A l \in 0..(k - 1) : l \in done

UnitsInit ==
    \E axis \in {"h", "v"}, tilt \in {-2, 1}, ds \in {-4096, 4096} :
        units = [pc |-> "conf", axis |-> axis,
                 epi |-> [k \in 1..WH_SIZE |->
                            LET u(a, j, c) == UnitSample(tilt, k - 1, a, j, c)
                            IN  EpiBlob(WH_SIZE, EPI_UV, u)],
                 C_q |-> [i \in 1..N_IMG |-> 0],
                 dL |-> <<>>, conf_done |-> {},
                 out_q |-> [i \in 1..N_IMG |-> 0], disp_done |-> {},
                 d |-> 4096, ds |-> ds, du |-> 2048, win |-> 3]

\* one iteration of a loop of compute_from_epis_with_diffs (channel 0)
ConfUnit(k) ==
    /\ units.pc = "conf"
    /\ Eligible(units.conf_done, k)
    /\ LET unit == BM_conf_unit(imbg_parse_payload(units.epi[k + 1]), 0).val
           done == units.conf_done \cup {k}
       IN  units' = [units EXCEPT
                       !.C_q = [i \in 1..N_IMG |->
                                  IF UnitOf(units.axis, i - 1) = k
                                  THEN BM_conf_mean(unit.sum_abs[
                                         IndexInUnit(units.axis, i - 1) + 1])
                                  ELSE units.C_q[i]],
                       !.dL = Append(units.dL,
                                BM_imgb_make(WH_SIZE, EPI_UV, 1, 4,
                                             unit.out_diff).val),
                       !.conf_done = done,
                       !.pc = IF done = AllUnits THEN "disp" ELSE "conf"]
    /\ UNCHANGED <<codec, fx, box, est, fuse, fixq, cross, epis>>

\* one iteration of the loop of compute_horizontal_from_epis or
\* compute_vertical_from_epis, on the list the confidence stage returned
DispUnit(k) ==
    /\ units.pc = "disp"
    /\ Eligible(units.disp_done, k)
    /\ LET epi_pay == imbg_parse_payload(units.epi[k + 1])
           d_pay == imbg_parse_payload(units.dL[k + 1])
           row == IF units.axis = "h"
                  THEN BM_disp_row(epi_pay, d_pay,
                                   BM_div_q12(units.du, units.ds),
                                   BM_inv_q12(units.d), units.win)
                  ELSE BM_disp_col(epi_pay, d_pay,
                                   BM_div_q12(units.du, units.ds),
                                   BM_inv_q12(units.d), units.win)
           done == units.disp_done \cup {k}
       IN  units' = [units EXCEPT
                       !.out_q = [i \in 1..N_IMG |->
                                    IF UnitOf(units.axis, i - 1) = k
                                    THEN row[IndexInUnit(units.axis, i - 1) + 1]
                                    ELSE units.out_q[i]],
                       !.disp_done = done,
                       !.pc = IF done = AllUnits THEN "done" ELSE "disp"]
    /\ UNCHANGED <<codec, fx, box, est, fuse, fixq, cross, epis>>

ConfUnits == \E k \in AllUnits : ConfUnit(k)

DispUnits == \E k \in AllUnits : DispUnit(k)

InitUnits ==
    /\ UnitsInit
    /\ codec = Idle /\ fx = Idle /\ box = Idle /\ est = Idle /\ fuse = Idle
    /\ fixq = Idle /\ cross = Idle /\ epis = Idle

NextUnits == ConfUnits \/ DispUnits

SpecUnits == InitUnits /\ [][NextUnits]_vars

(***************************************************************************)
(* Per-row units of work: properties                                       *)
(***************************************************************************)
\* what the calls return when the units run in the order of the code
SequentialConf == BM_compute_from_epis_with_diffs(units.epi, units.epi, 0).val

SequentialMap ==
    IF units.axis = "h" THEN SequentialConf.C_h ELSE SequentialConf.C_v

SequentialDiffs ==
    IF units.axis = "h" THEN SequentialConf.dL_du_h ELSE SequentialConf.dL_dv_v

SequentialDisparity ==
    IF units.axis = "h"
    THEN BM_compute_horizontal_from_epis(units.epi, SequentialDiffs, units.d,
                                         units.ds, units.du, units.win).val
    ELSE BM_compute_vertical_from_epis(units.epi, SequentialDiffs, units.d,
                                       units.ds, units.du, units.win).val

\* the maps as the calls pack them
ConfidenceMap ==
    BM_imgb_make(WH_SIZE, WH_SIZE, 1, 4,
      PackedSeq(Tab([i \in 1..N_IMG |->
                  BM_conf_bias_from_q12_12(units.C_q[i])]))).val

DisparityMap ==
    BM_imgb_make(WH_SIZE, WH_SIZE, 1, 4,
      PackedSeq(Tab([i \in 1..N_IMG |-> BM_disp_bias_q(units.out_q[i])]))).val

C17_ConfidenceMapOrderIndependent ==
    units.pc \in {"disp", "done"} => ConfidenceMap = SequentialMap

\* the difference blobs are those of the code's order, in the order the
\* units ran in
C17_DiffsInRunOrder ==
    units.pc \in {"disp", "done"}
      => \A k \in AllUnits : \E l \in 1..WH_SIZE :
           units.dL[l] = SequentialDiffs[k + 1]

\* a unit writes the positions of its own row or column only
C17_UnitWritesOwnPositions ==
    [][units.pc \in {"conf", "disp"} =>
         \A i \in 0..(N_IMG - 1) :
           LET k == UnitOf(units.axis, i)
           IN  /\ (k \in units.conf_done' <=> k \in units.conf_done)
                    => units.C_q'[i + 1] = units.C_q[i + 1]
               /\ (k \in units.disp_done' <=> k \in units.disp_done)
                    => units.out_q'[i + 1] = units.out_q[i + 1]]_vars

\* the units ran in the order of the code
RanInOrder == units.dL = SequentialDiffs

C17_InOrderWitness ==
    units.pc = "done" /\ RanInOrder /\ DisparityMap = SequentialDisparity

\* out of order, the disparity map is another one
C17_OutOfOrderWitness ==
    /\ units.pc = "done" /\ ~RanInOrder
    /\ ConfidenceMap = SequentialMap
    /\ DisparityMap # SequentialDisparity

(***************************************************************************)
(* Per-row units of work (No_Libraries): a unit that fails                 *)
(*                                                                         *)
(* compute_horizontal_from_epis / compute_vertical_from_epis as a call     *)
(* that runs its units one after another.  units.frame holds the locals of *)
(* the call (the loop index and out_q); they exist while the call is       *)
(* active.  units.result is what the caller gets: the returned blob, or    *)
(* the exception, whose text is its message and whose values are the       *)
(* numbers formatted into the message.                                     *)
(***************************************************************************)
RaiseMsg(e, text, values) ==
    [exc |-> e, val |-> <<>>, text |-> text, values |-> values]

ReturnVal(v) == [exc |-> "none", val |-> v, text |-> "", values |-> <<>>]

NotCalled == [exc |-> "nocall", val |-> <<>>, text |-> "", values |-> <<>>]

\* imgb_parse with the message of the error it raises
NL_imgb_parse_msg(buf) ==
    LET r == NL_imgb_parse(buf)
    IN  IF r.exc = "none" THEN ReturnVal(r.val)
        ELSE IF Len(buf) < 16
             THEN RaiseMsg("ValueError", "IMGB buffer too small", <<>>)
        ELSE IF SubSeq(buf, 1, 4) # MAGIC
             THEN RaiseMsg("ValueError", "Bad IMGB magic", <<>>)
        ELSE IF ~SupportedDtype(buf[14])
             THEN RaiseMsg("ValueError", "Unsupported dtype_code", <<buf[14]>>)
        ELSE RaiseMsg("ValueError", "IMGB payload size mismatch",
                      << Len(buf) - 16,
                         u32_le(buf, 4) * u32_le(buf, 8) * buf[13]
                           * bytes_per_sample(buf[14]) >>)

NL_disp_bias_q(q) == Clamp(q + BIAS_INT, 0, U24_MAX)

\* int(D * float(Q_SCALE) + 0.5) for D = (1.0 + num / den) * (1.0 / d),
\* num / den given as the quotient of two integers with den * d > 0
NL_disp_quantise(num, den, d) ==
    LET t == 2 * (den + num) * Q_SCALE + den * d
    IN  IF t >= 0 THEN t \div (2 * den * d) ELSE -((-t) \div (2 * den * d))

\* The values of one unit (n positions, A angular rows).  The float
\* arithmetic is written with integer quotients: the EPIs of this
\* specification do not vary along the unit, so S_uv is 0 everywhere, every
\* quotient below is exact and so is every float operation of the code
\* (d a power of two).
NL_disp_row(epi_pay, d_pay, n, A, d, ds, du, win) ==
    LET rows == 1..A
        cols == 1..n
        BPP == 9
        dL_du == Tab([a \in rows |-> Tab([x \in cols |->
                   u24_read(d_pay, ((a - 1) * n) * 3 + (x - 1) * 3)
                     - BIAS_INT])])
        dL_ds == Tab([a \in rows |-> Tab([x \in cols |->
                   IF x = 1 \/ x = n THEN 0
                   ELSE LET o_m == ((a - 1) * n + (x - 2)) * BPP
                            o_p == ((a - 1) * n + x) * BPP
                            Lm == u24_read(epi_pay, o_m) - BIAS_INT
                            Lp == u24_read(epi_pay, o_p) - BIAS_INT
                        IN  NL_conf_round_div2(Lp - Lm)])])
        P_uv == Tab([a \in rows |-> Tab([x \in cols |->
                   dL_du[a][x] * dL_ds[a][x]])])
        P_uu == Tab([a \in rows |-> Tab([x \in cols |->
                   dL_du[a][x] * dL_du[a][x]])])
        W_u == Tab([a \in rows |-> Tab([x \in cols |-> abs_i32(dL_du[a][x])])])
        S_uv == NL_box_sum_2d_int(P_uv, win)
        S_uu == NL_box_sum_2d_int(P_uu, win)
        W_b == NL_box_sum_2d_int(W_u, win)
        used(a, x) == W_b[a][x] > 0 /\ S_uu[a][x] > 0
        \* ratio * w with ratio = (du / ds) * (S_uv / S_uu)
        term(a, x) == (du * S_uv[a][x] * W_b[a][x]) \div (ds * S_uu[a][x])
        num(x) == SumSeq([a \in rows |-> IF used(a, x) THEN term(a, x) ELSE 0])
        den(x) == SumSeq([a \in rows |-> IF used(a, x) THEN W_b[a][x] ELSE 0])
    IN  Tab([x \in cols |->
          IF den(x) <= 0 THEN 0 ELSE NL_disp_quantise(num(x), den(x), d)])

\* one iteration of the loop over the units: the values of the unit, or
\* the error that ends the call
NL_disp_unit(axis, epi_imgb, dL, y, n, A, d, ds, du, win) ==
    IF y + 1 > Len(dL)
    THEN RaiseMsg("IndexError", "list index out of range", <<>>)
    ELSE LET p == NL_imgb_parse_msg(dL[y + 1])
         IN  IF p.exc # "none" THEN p
             ELSE IF p.val[1] # n \/ p.val[2] # A \/ p.val[3] # 1
                       \/ p.val[4] # 4
                  THEN RaiseMsg("ValueError",
                                IF axis = "h"
                                THEN "dL_du_h blob shape mismatch"
                                ELSE "dL_dv_v blob shape mismatch", <<>>)
             ELSE ReturnVal(NL_disp_row(imbg_parse_payload(epi_imgb[y + 1]),
                                        p.val[5], n, A, d, ds, du, win))

\* the position in out_q of value j of unit k: out_q[row_base + x] with
\* row_base = y * W for a row, out_q[y * W + x] for a column
NL_unit_pos(axis, k, j, W) == IF axis = "h" THEN k * W + j ELSE j * W + k

UnitsA == 3              \* angular rows of the EPIs

UnitFaults == {"width", "angular", "channels", "dtype", "truncated", "missing"}

\* an EPI with angular variation k per angular row and none along the unit
FlatSample(k, a, j, c) == BIAS_INT + k * a + 100 * c

\* the difference blob of a unit, with a fault
FaultyBlob(blob, kind, n, A) ==
    LET bias(m) == PackedSeq([i \in 1..m |-> BIAS_INT])
    IN  CASE kind = "width" -> NL_imgb_make(n + 1, A, 1, 4,
                                            bias((n + 1) * A)).val
          [] kind = "angular" -> NL_imgb_make(n, A + 1, 1, 4,
                                              bias(n * (A + 1))).val
          [] kind = "channels" -> NL_imgb_make(n, A, 3, 4,
                                               bias(n * A * 3)).val
          [] kind = "dtype" -> NL_imgb_make(n, A, 1, 1,
                                            [i \in 1..(n * A) |-> 0]).val
          [] kind = "truncated" -> SubSeq(blob, 1, Len(blob) - 1)
          [] OTHER -> blob

FaultyList(dL, bad, kind, n, A) ==
    IF bad < 0 THEN dL
    ELSE IF kind = "missing" THEN SubSeq(dL, 1, bad)
    ELSE [k \in 1..Len(dL) |->
            IF k = bad + 1 THEN FaultyBlob(dL[k], kind, n, A) ELSE dL[k]]

NoFrame == [live |-> FALSE, y |-> 0, n |-> 0, A |-> 0, out_q |-> <<>>]

RowsInit ==
    \E axis \in {"h", "v"}, d \in {0, 1, 2}, ds \in {1, 2},
       bad \in -1..(NlWidth - 1), kind \in UnitFaults :
        LET count == IF axis = "h" THEN NlHeight ELSE NlWidth
            n == IF axis = "h" THEN NlWidth ELSE NlHeight
            epis_of(m, len) ==
              [k \in 1..m |->
                 LET u(a, j, c) == FlatSample(k - 1, a, j, c)
                 IN  EpiBlob(len, UnitsA, u)]
            epi_h == epis_of(NlHeight, NlWidth)
            epi_v == epis_of(NlWidth, NlHeight)
            conf == NL_compute_from_epis_with_diffs(epi_h, epi_v, 0).val
            dL == IF axis = "h" THEN conf.dL_du_h ELSE conf.dL_dv_v
        IN  /\ bad < count
            /\ bad < 0 => kind = "width"
            /\ units = [pc |-> "enter", axis |-> axis,
                        epi |-> IF axis = "h" THEN epi_h ELSE epi_v,
                        good |-> dL,
                        dL |-> FaultyList(dL, bad, kind, n, UnitsA),
                        bad |-> bad, kind |-> kind,
                        d |-> d, ds |-> ds, du |-> 1, win |-> 3,
                        frame |-> NoFrame, result |-> NotCalled]

\* the call up to its loop (lines 96-111, 196-211)
EnterDisparity ==
    /\ units.pc = "enter"
    /\ LET H == Len(units.epi)
           p == NL_imgb_parse_msg(units.epi[1])
           fail(r) == units' = [units EXCEPT !.pc = "raised", !.result = r]
       IN  IF H = 0
           THEN fail(RaiseMsg("ValueError",
                       IF units.axis = "h" THEN "Empty epi_h_imgb"
                       ELSE "Empty epi_v_imgb", <<>>))
           ELSE IF p.exc # "none" THEN fail(p)
           ELSE IF p.val[4] # 4 \/ p.val[3] # 3
                THEN fail(RaiseMsg("ValueError",
                            IF units.axis = "h"
                            THEN "epi_h_imgb must be dtype_code=4, C=3"
                            ELSE "epi_v_imgb must be dtype_code=4, C=3",
                            <<>>))
           ELSE IF units.ds = 0 \/ units.d = 0
                THEN fail(RaiseMsg("ZeroDivisionError",
                            "float division by zero", <<>>))
           ELSE units' = [units EXCEPT
                            !.pc = "units",
                            !.frame = [live |-> TRUE, y |-> 0,
                                       n |-> p.val[1], A |-> p.val[2],
                                       out_q |-> [i \in 1..(H * p.val[1])
                                                    |-> 0]]]
    /\ UNCHANGED <<codec, fx, box, est, fuse, fixq, cross, epis>>

\* one iteration of the loop (lines 113-184, 213-280): the values of the
\* unit are written to out_q, or the error leaves the call and its locals
\* are gone
DisparityUnit ==
    /\ units.pc = "units"
    /\ units.frame.y < Len(units.epi)
    /\ LET f == units.frame
           W == IF units.axis = "h" THEN f.n ELSE Len(units.epi)
           r == NL_disp_unit(units.axis, units.epi, units.dL, f.y, f.n, f.A,
                             units.d, units.ds, units.du, units.win)
       IN  IF r.exc # "none"
           THEN units' = [units EXCEPT !.pc = "raised", !.result = r,
                                       !.frame = NoFrame]
           ELSE units' = [units EXCEPT
                  !.frame.y = f.y + 1,
                  !.frame.out_q =
                     [i \in 1..Len(f.out_q) |->
                        IF \E j \in 0..(f.n - 1) :
                             i - 1 = NL_unit_pos(units.axis, f.y, j, W)
                        THEN LET j == CHOOSE j \in 0..(f.n - 1) :
                                   i - 1 = NL_unit_pos(units.axis, f.y, j, W)
                             IN  r.val[j + 1]
                        ELSE f.out_q[i]]]
    /\ UNCHANGED <<codec, fx, box, est, fuse, fixq, cross, epis>>

\* after the loop (lines 186-190, 282-286): pack out_q and return the blob
ReturnDisparity ==
    /\ units.pc = "units"
    /\ units.frame.y = Len(units.epi)
    /\ LET f == units.frame
           count == Len(units.epi)
           W == IF units.axis = "h" THEN f.n ELSE count
           H == IF units.axis = "h" THEN count ELSE f.n
           out_pay == PackedSeq(Tab([i \in 1..(H * W) |->
                        NL_disp_bias_q(f.out_q[i])]))
           blob == NL_imgb_make(W, H, 1, 4, out_pay)
       IN  units' = [units EXCEPT !.pc = "returned",
                                  !.result = ReturnVal(blob.val),
                                  !.frame = NoFrame]
    /\ UNCHANGED <<codec, fx, box, est, fuse, fixq, cross, epis>>

InitRows ==
    /\ RowsInit
    /\ codec = Idle /\ fx = Idle /\ box = Idle /\ est = Idle /\ fuse = Idle
    /\ fixq = Idle /\ cross = Idle /\ epis = Idle

NextRows == EnterDisparity \/ DisparityUnit \/ ReturnDisparity

SpecRows == InitRows /\ [][NextRows]_vars

(***************************************************************************)
(* A unit that fails: properties                                           *)
(***************************************************************************)
\* the values of unit k computed from its own inputs
UnitValues(k) ==
    LET n == IF units.axis = "h" THEN NlWidth ELSE NlHeight
    IN  NL_disp_row(imbg_parse_payload(units.epi[k + 1]),
                    imbg_parse_payload(units.good[k + 1]), n, UnitsA,
                    units.d, units.ds, units.du, units.win)

\* the caller holds the values of unit k: they are in the blob it got
UnitAvailable(k) ==
    /\ units.result.exc = "none"
    /\ LET n == IF units.axis = "h" THEN NlWidth ELSE NlHeight
       IN  \A j \in 0..(n - 1) :
             u24_read(imbg_parse_payload(units.result.val),
                      3 * NL_unit_pos(units.axis, k, j, NlWidth))
               = NL_disp_bias_q(UnitValues(k)[j + 1])

\* the error the caller holds says which unit failed
ErrorNamesUnit ==
    \E i \in DOMAIN units.result.values :
        units.result.values[i] = units.bad

\* a unit failed after other units had been computed
FailedInUnit == units.pc = "raised" /\ units.bad >= 0 /\ units.d # 0

\* C18: when a unit fails, the values of the units computed before it are
\* available to the caller, and the error names the unit that failed.
C18_FailureAbortsOnlyUnit ==
    FailedInUnit =>
        /\ \A k \in 0..(units.bad - 1) : UnitAvailable(k)
        /\ ErrorNamesUnit

\* what the code does: the failure of a unit ends the whole call, the
\* caller holds an exception without the computed values and without the
\* number of the unit
C18_FailureAbortsCall ==
    FailedInUnit =>
        /\ units.result.val = <<>> /\ ~units.frame.live
        /\ \A k \in 0..(Len(units.epi) - 1) : ~UnitAvailable(k)
        /\ ~ErrorNamesUnit
        /\ units.kind \in {"width", "angular", "channels", "dtype"}
             => units.result.text = IF units.axis = "h"
                                    THEN "dL_du_h blob shape mismatch"
                                    ELSE "dL_dv_v blob shape mismatch"

\* while the call runs, the units computed so far hold their values in
\* out_q and the others hold 0
C18_SiblingsUntouchedInFrame ==
    units.frame.live =>
        \A k \in 0..(Len(units.epi) - 1), j \in 0..(units.frame.n - 1) :
            units.frame.out_q[NL_unit_pos(units.axis, k, j, NlWidth) + 1]
              = IF k < units.frame.y THEN UnitValues(k)[j + 1] ELSE 0

\* without a fault the call returns the values of every unit
C18_NoFaultReturnsAll ==
    units.pc = "returned" =>
        /\ units.bad < 0
        /\ \A k \in 0..(Len(units.epi) - 1) : UnitAvailable(k)

\* a unit failed after a unit with values other than 0 had been computed
C18_FailedAfterSibling ==
    /\ FailedInUnit /\ units.bad >= 2
    /\ \E j \in 1..Len(UnitValues(1)) : UnitValues(1)[j] # 0

(***************************************************************************)
(* The low-pass convolution of both variants on one frame: the steps       *)
(*                                                                         *)
(* cross.raw is the u8 RGB payload of a frame of cross.W by cross.H        *)
(* pixels; cross.nl and cross.bm are what _convolve_u8_rgb of each variant *)
(* returns for it, cross.nl_pay and cross.bm_pay what                      *)
(* _u8_rgb_to_q12_12_u24_payload makes of that.  Bit_Manipulation is run   *)
(* on frames of the size it is compiled for.                               *)
(***************************************************************************)
KernelSizes == {3, 5, 7}

\* frames: <<base, step along x, step along y, height of an impulse at
\* pixel (1, 1), step from channel to channel>>
BlurPatterns ==
    { <<0, 0, 0, 0, 0>>, <<1, 0, 0, 0, 0>>, <<200, 0, 0, 0, 7>>,
      <<255, 0, 0, 0, 0>>, <<0, 0, 0, 2, 0>>, <<0, 0, 0, 255, 7>>,
      <<255, 0, 0, 1, 0>>, <<0, 1, 0, 0, 7>>, <<3, 17, 5, 0, 7>>,
      <<250, 1, 1, 0, 7>>, <<10, 60, 90, 40, 7>> }

BlurSample(pat, y, x, c) ==
    (pat[1] + pat[2] * x + pat[3] * y + pat[5] * c
       + (IF y = 1 /\ x = 1 THEN pat[4] ELSE 0)) % 256

BlurFrame(pat, W, H) ==
    Tab([j \in 1..(H * W * 3) |->
      BlurSample(pat, ((j - 1) \div 3) \div W, ((j - 1) \div 3) % W,
                 (j - 1) % 3)])

BlurInit ==
    \E kernel_size \in KernelSizes, pat \in BlurPatterns,
       geom \in {<<WH_SIZE, WH_SIZE>>, <<NlWidth, NlHeight>>} :
        cross = [pc |-> "blur", kernel_size |-> kernel_size,
                 W |-> geom[1], H |-> geom[2],
                 raw |-> BlurFrame(pat, geom[1], geom[2]),
                 nl |-> NoCall, bm |-> NoCall,
                 nl_pay |-> NoCall, bm_pay |-> NoCall]

\* blurred_u8 = _convolve_u8_rgb(payload, W, H, K, kernel_sum)
ConvolveNL ==
    /\ cross.pc = "blur"
    /\ cross.nl = NoCall
    /\ LET KS == NL_KERNELS(cross.kernel_size)
       IN  cross' = [cross EXCEPT !.nl =
                       NL_convolve_u8_rgb(cross.raw, cross.W, cross.H,
                                          KS[1], KS[2])]
    /\ UNCHANGED <<codec, fx, box, est, fuse, fixq, epis, units>>

\* blurred_u8 = _convolve_u8_rgb(payload, W, H, E, norm_shift)
ConvolveBM ==
    /\ cross.pc = "blur"
    /\ cross.bm = NoCall
    /\ cross.W = WH_SIZE /\ cross.H = WH_SIZE
    /\ LET ES == BM_KERNELS(cross.kernel_size)
       IN  cross' = [cross EXCEPT !.bm =
                       BM_convolve_u8_rgb(cross.raw, cross.W, cross.H,
                                          ES[1], ES[2])]
    /\ UNCHANGED <<codec, fx, box, est, fuse, fixq, epis, units>>

\* out_payload = _u8_rgb_to_q12_12_u24_payload(blurred_u8, W, H)
ConvertNL ==
    /\ cross.pc = "blur"
    /\ cross.nl.exc = "none" /\ cross.nl_pay = NoCall
    /\ cross' = [cross EXCEPT !.nl_pay =
                   NL_u8_rgb_to_q12_12_u24_payload(cross.nl.val, cross.W,
                                                   cross.H)]
    /\ UNCHANGED <<codec, fx, box, est, fuse, fixq, epis, units>>

ConvertBM ==
    /\ cross.pc = "blur"
    /\ cross.bm.exc = "none" /\ cross.bm_pay = NoCall
    /\ cross' = [cross EXCEPT !.bm_pay =
                   BM_u8_rgb_to_q12_12_u24_payload(cross.bm.val, cross.W,
                                                   cross.H)]
    /\ UNCHANGED <<codec, fx, box, est, fuse, fixq, epis, units>>

InitBlur ==
    /\ BlurInit
    /\ codec = Idle /\ fx = Idle /\ box = Idle /\ est = Idle /\ fuse = Idle
    /\ fixq = Idle /\ epis = Idle /\ units = Idle

NextBlur == ConvolveNL \/ ConvolveBM \/ ConvertNL \/ ConvertBM

SpecBlur == InitBlur /\ [][NextBlur]_vars

(***************************************************************************)
(* The low-pass convolution: properties                                    *)
(***************************************************************************)
BlurPixels == (0..(cross.H - 1)) \X (0..(cross.W - 1)) \X {0, 1, 2}

\* the input samples under the reflected window of pixel (y, x), channel c,
\* in the order of the taps
WindowSamples(y, x, c) ==
    LET k == cross.kernel_size
        p == k \div 2
    IN  [t \in 1..(k * k) |->
          cross.raw[(reflect_index(y + ((t - 1) \div k) - p, cross.H)
                       * cross.W
                     + reflect_index(x + ((t - 1) % k) - p, cross.W)) * 3
                    + c + 1]]

\* the weights of the taps and their normalisation constant
TapWeights ==
    LET K == NL_KERNELS(cross.kernel_size)[1]
        k == cross.kernel_size
    IN  [t \in 1..(k * k) |-> K[((t - 1) \div k) + 1][((t - 1) % k) + 1]]

\* acc: the reflect-indexed weighted sum
WeightedSum(y, x, c) ==
    LET s == WindowSamples(y, x, c)
        w == TapWeights
    IN  SumSeq([t \in 1..Len(s) |-> s[t] * w[t]])

\* clamp(floor((acc + S/2) / S), 0, 255)
RoundedBlur(y, x, c) ==
    LET S == NL_KERNELS(cross.kernel_size)[2]
    IN  Clamp((WeightedSum(y, x, c) + S \div 2) \div S, 0, 255)

\* clamp(floor(acc / S), 0, 255)
FlooredBlur(y, x, c) ==
    LET S == NL_KERNELS(cross.kernel_size)[2]
    IN  Clamp(WeightedSum(y, x, c) \div S, 0, 255)

\* the blurred sample of pixel (y, x), channel c
BlurredNL(y, x, c) == cross.nl.val[(y * cross.W + x) * 3 + c + 1]

BlurredBM(y, x, c) == cross.bm.val[(Shl(y, WH_SHIFT) + x) * 3 + c + 1]

BothBlurred == cross.pc = "blur" /\ cross.nl.exc = "none"
                 /\ cross.bm.exc = "none"

\* C21: in both variants every blurred sample is
\* clamp(floor((acc + S/2) / S), 0, 255), so the two variants give the same
\* blurred bytes for the same frame.
C21_RoundsToNearest ==
    BothBlurred =>
        /\ \A px \in BlurPixels :
             /\ BlurredNL(px[1], px[2], px[3])
                  = RoundedBlur(px[1], px[2], px[3])
             /\ BlurredBM(px[1], px[2], px[3])
                  = RoundedBlur(px[1], px[2], px[3])
        /\ cross.nl.val = cross.bm.val

\* No_Libraries rounds to nearest
C21_RoundsToNearestNL ==
    (cross.pc = "blur" /\ cross.nl.exc = "none") =>
        \A px \in BlurPixels :
            BlurredNL(px[1], px[2], px[3]) = RoundedBlur(px[1], px[2], px[3])

\* Bit_Manipulation rounds down
C21_RoundsDownBM ==
    (cross.pc = "blur" /\ cross.bm.exc = "none") =>
        \A px \in BlurPixels :
            BlurredBM(px[1], px[2], px[3]) = FlooredBlur(px[1], px[2], px[3])

\* the two variants return different bytes for one frame
C21_VariantsDiffer ==
    BothBlurred /\ cross.nl.val # cross.bm.val

\* kernel size 3, an impulse of 2 on a frame of 0: 1 in No_Libraries, 0 in
\* Bit_Manipulation
C21_ImpulseDiffers ==
    /\ BothBlurred /\ cross.kernel_size = 3
    /\ cross.raw[(WH_SIZE + 1) * 3 + 1] = 2
    /\ WeightedSum(1, 1, 0) = 8
    /\ BlurredNL(1, 1, 0) = 1 /\ BlurredBM(1, 1, 0) = 0

\* the sum of the entries of a kernel, each entry taken as weight(entry)
KernelTotal(K, weight) ==
    SumSeq([t \in 1..(Len(K) * Len(K)) |->
              weight[K[((t - 1) \div Len(K)) + 1][((t - 1) % Len(K)) + 1]]])

SeqMin(s) == CHOOSE m \in {s[t] : t \in DOMAIN s} :
                 \A t \in DOMAIN s : m <= s[t]

SeqMax(s) == CHOOSE m \in {s[t] : t \in DOMAIN s} :
                 \A t \in DOMAIN s : m >= s[t]

\* the normalisation constant of each kernel is the sum of its weights
UnitGainKernels ==
    \A ks \in KernelSizes :
        /\ KernelTotal(NL_KERNELS(ks)[1], [e \in 0..16 |-> e])
             = NL_KERNELS(ks)[2]
        /\ KernelTotal(BM_KERNELS(ks)[1], [e \in 0..2 |-> 2 ^ e])
             = 2 ^ BM_KERNELS(ks)[2]

\* the frame is c in every sample
ConstantFrame(c) == \A j \in DOMAIN cross.raw : cross.raw[j] = c

\* a blurred sample lies between the least and the greatest input sample
\* under its window
InWindowRange(b, y, x, c) ==
    /\ SeqMin(WindowSamples(y, x, c)) <= b
    /\ b <= SeqMax(WindowSamples(y, x, c))

\* the stored u24 of every byte b of blurred is b * 4096 + 8388608, below
\* saturation, and decodes to b
ConvertedExactly(blurred, pay) ==
    \A j \in DOMAIN blurred :
        LET stored == u24_read(pay, 3 * (j - 1))
        IN  /\ stored = blurred[j] * 4096 + 8388608
            /\ stored < U24_MAX
            /\ (stored - 8388608) % 4096 = 0
            /\ (stored - 8388608) \div 4096 = blurred[j]

\* C22: the normalisation constant of every kernel is the sum of its
\* weights; a frame of c in every sample blurs to c in every sample; every
\* blurred sample lies between the least and greatest input sample under
\* its reflected window; the conversion to Q12.12 never saturates and
\* decodes to the blurred byte.
C22_UnitGain ==
    cross.pc = "blur" =>
        /\ UnitGainKernels
        /\ cross.nl.exc = "none" =>
             /\ \A c \in 0..255 : ConstantFrame(c) =>
                  \A j \in DOMAIN cross.nl.val : cross.nl.val[j] = c
             /\ \A px \in BlurPixels :
                  InWindowRange(BlurredNL(px[1], px[2], px[3]),
                                px[1], px[2], px[3])
        /\ cross.bm.exc = "none" =>
             /\ \A c \in 0..255 : ConstantFrame(c) =>
                  \A j \in DOMAIN cross.bm.val : cross.bm.val[j] = c
             /\ \A px \in BlurPixels :
                  InWindowRange(BlurredBM(px[1], px[2], px[3]),
                                px[1], px[2], px[3])
        /\ cross.nl_pay.exc = "none" =>
             ConvertedExactly(cross.nl.val, cross.nl_pay.val)
        /\ cross.bm_pay.exc = "none" =>
             ConvertedExactly(cross.bm.val, cross.bm_pay.val)

\* a frame of 255 in every sample went through both variants with the
\* largest kernel
C22_Witness ==
    /\ cross.pc = "blur" /\ cross.kernel_size = 7 /\ ConstantFrame(255)
    /\ cross.nl_pay.exc = "none" /\ cross.bm_pay.exc = "none"
    /\ Len(cross.bm.val) = HW_X3
    /\ \A j \in DOMAIN cross.bm.val : cross.bm.val[j] = 255
    /\ u24_read(cross.bm_pay.val, 0) = 255 * 4096 + 8388608

\* a frame with an impulse went through both variants
C22_ImpulseWitness ==
    /\ cross.pc = "blur" /\ cross.raw[(WH_SIZE + 1) * 3 + 1] = 255
    /\ cross.raw[1] = 0
    /\ cross.nl_pay.exc = "none" /\ cross.bm_pay.exc = "none"
    /\ BlurredNL(1, 1, 0) > 0 /\ BlurredNL(1, 1, 0) < 255

(***************************************************************************)
(* Box sum: the window sum and the two variants side by side               *)
(***************************************************************************)
\* the sum of plane[a'][x'] over the positions of the plane with
\* |a' - a| <= r and |x' - x| <= r (1-based a, x)
ZeroPaddedSum(plane, a, x, r) ==
    SumSeq([t \in 1..(Len(plane) * Len(plane[1])) |->
      LET a2 == ((t - 1) \div Len(plane[1])) + 1
          x2 == ((t - 1) % Len(plane[1])) + 1
      IN  IF a2 - a <= r /\ a - a2 <= r /\ x2 - x <= r /\ x - x2 <= r
          THEN plane[a2][x2] ELSE 0])

OddWindow == box.win > 1 /\ box.win % 2 = 1

\* C23: for an odd window size win > 1, the box sum of either variant is at
\* every position (a, x) the sum of the plane entries within win // 2 rows
\* and columns of it that lie in the plane, and has the shape of the plane.
C23_ZeroPaddedWindowSum ==
    (box.pc = "done" /\ OddWindow) =>
        /\ Len(box.out) = BoxRows
        /\ \A a \in 1..BoxRows :
             /\ Len(box.out[a]) = BoxCols
             /\ \A x \in 1..BoxCols :
                  box.out[a][x]
                    = ZeroPaddedSum(box.plane, a, x, box.win \div 2)

\* the call leaves its argument as it was
C23_PlaneUnmodified == [][box.plane' = box.plane]_vars

\* a window of 3 on a plane of MaxBoxDim rows and columns: the window of a
\* corner is cut on two sides, and its sum is not the sum of the plane
C23_Witness ==
    /\ box.pc = "done" /\ box.by = "NL" /\ box.win = 3
    /\ BoxRows = MaxBoxDim /\ BoxCols = MaxBoxDim
    /\ box.out[1][1] # PlainSum(box.plane)
    /\ box.out[1][1] # box.plane[1][1]
    /\ box.out[1][1] # box.out[2][2]

C23_WitnessBM ==
    /\ box.pc = "done" /\ box.by = "BM" /\ box.win = 3
    /\ BoxRows = MaxBoxDim /\ BoxCols = MaxBoxDim
    /\ box.out[MaxBoxDim][MaxBoxDim] # PlainSum(box.plane)
    /\ box.out[MaxBoxDim][MaxBoxDim] # box.plane[MaxBoxDim][MaxBoxDim]

\* position (a, x) of a plane is a boundary position for radius r: its
\* window reaches outside the plane
AtBoundary(plane, a, x, r) ==
    \/ a - r < 1 \/ a + r > Len(plane)
    \/ x - r < 1 \/ x + r > Len(plane[1])

\* C24 as stated: there is a plane and an odd window size for which the box
\* sums of Bit_Manipulation and of No_Libraries differ at a boundary
\* position.
C24_EdgePolicyDiffers ==
    \E plane \in BoxPlanes \ {<<>>}, win \in BoxWins :
        /\ box.pc \in {"args", "done"}
        /\ win > 1 /\ win % 2 = 1
        /\ \E a \in 1..Len(plane), x \in 1..Len(plane[1]) :
             /\ AtBoundary(plane, a, x, win \div 2)
             /\ BM_box_sum_2d_int(plane, win)[a][x]
                  # NL_box_sum_2d_int(plane, win)[a][x]

\* C24, amended: for every plane and window size the box sums of
\* Bit_Manipulation and of No_Libraries are equal at every position,
\* boundary positions included.
C24_EdgePolicySame ==
    box.pc = "done" =>
        /\ BM_box_sum_2d_int(box.plane, box.win) = box.out
        /\ NL_box_sum_2d_int(box.plane, box.win) = box.out

\* a call whose window is cut at a boundary position with entries other
\* than 0 outside it
C24_Witness ==
    /\ box.pc = "done" /\ box.by = "BM" /\ OddWindow
    /\ BoxRows = MaxBoxDim /\ BoxCols = MaxBoxDim
    /\ AtBoundary(box.plane, 1, MaxBoxDim, box.win \div 2)
    /\ box.out[1][MaxBoxDim] # PlainSum(box.plane)
    /\ box.out[1][MaxBoxDim] # 0

(***************************************************************************)
(* Fusion: which axis the fused value follows                              *)
(***************************************************************************)
DefaultWeights == fuse.floor = 1 /\ fuse.cap = 4096 /\ fuse.eps = 1

\* pixel k of the output is at least as close to a as to b
CloserTo(k, a, b) ==
    LET z == BlobSample(fuse.out.val, k)
    IN  abs_i32(z - a) <= abs_i32(z - b)

\* at pixel k the fused value is at least as close to the value of the axis
\* with the greater decoded confidence
FavorsConfident(k) ==
    LET zh == BlobSample(fuse.Z_h, k)
        zv == BlobSample(fuse.Z_v, k)
        ch == BlobSample(fuse.C_h, k)
        cv == BlobSample(fuse.C_v, k)
    IN  /\ ch > cv => CloserTo(k, zh, zv)
        /\ cv > ch => CloserTo(k, zv, zh)

\* C25: with temperature >= 1 and the default floor, cap and eps, at every
\* pixel whose decoded confidences satisfy C_h > C_v the fused value is at
\* least as close to z_h as to z_v, and the other way round when C_v > C_h.
C25_FavorsConfidentAxis ==
    (fuse.pc = "done" /\ fuse.temperature >= 1 /\ DefaultWeights)
      => \A k \in 0..(N_IMG - 1) : FavorsConfident(k)

\* what the code computes with the default parameters where the weight of
\* z_v is 1.0 and z_v is 0 <= z_h: 0.5, whatever z_h and its weight are
C25_HalfNextToZero ==
    (fuse.pc = "done" /\ fuse.temperature = 4 /\ DefaultWeights)
      => \A k \in 0..(N_IMG - 1) :
           (/\ BlobSample(fuse.C_v, k) >= 4096
            /\ BlobSample(fuse.C_h, k) < 2048
            /\ BlobSample(fuse.Z_v, k) = 0
            /\ BlobSample(fuse.Z_h, k) \in 0..4096)
             => BlobSample(fuse.out.val, k) = 2048

\* a pixel with C_v > C_h, z_v = 0 and 0 < z_h < 4096 whose fused value is
\* 0.5 and nearer to z_h
C25_NearerToWeakAxis ==
    /\ fuse.pc = "done" /\ fuse.temperature = 4 /\ DefaultWeights
    /\ \E k \in 0..(N_IMG - 1) :
         /\ BlobSample(fuse.C_v, k) > BlobSample(fuse.C_h, k)
         /\ BlobSample(fuse.Z_v, k) = 0
         /\ BlobSample(fuse.Z_h, k) > 0
         /\ ~CloserTo(k, BlobSample(fuse.Z_v, k), BlobSample(fuse.Z_h, k))

(***************************************************************************)
(* The two axes on the same EPIs (Bit_Manipulation): the calls             *)
(*                                                                         *)
(* The pipeline of SpecPipe on a square image whose vertical EPI of column *)
(* x is the horizontal EPI of row x.  The EPIs differ from unit to unit    *)
(* and along both of their axes.                                           *)
(***************************************************************************)
AxesInit ==
    \E tilt \in {-2, 1}, d \in {2048, 4096}, ds \in {-4096, 4096},
       dt \in {-4096, 4096, 2048}, win \in {1, 3, 5} :
        LET epi == [k \in 1..WH_SIZE |->
                      LET u(a, j, c) == UnitSample(tilt, k - 1, a, j, c)
                      IN  EpiBlob(WH_SIZE, EPI_UV, u)]
        IN  /\ dt \in {ds, 2048}
            /\ est = [pc |-> "args", W |-> WH_SIZE, H |-> WH_SIZE,
                      A |-> EPI_UV, channel |-> 0,
                      epi_h |-> epi, epi_v |-> epi,
                      by |-> "none", out |-> NoCall,
                      d |-> d, ds |-> ds, du |-> 2048, win |-> win,
                      dt |-> dt, dv |-> 2048,
                      Z_h |-> NoCall, Z_v |-> NoCall]

InitAxes ==
    /\ AxesInit
    /\ codec = Idle /\ fx = Idle /\ box = Idle /\ fuse = Idle
    /\ fixq = Idle /\ cross = Idle /\ epis = Idle /\ units = Idle

SpecAxes == InitAxes /\ [][NextPipe]_vars

(***************************************************************************)
(* The two axes on the same EPIs: properties                               *)
(***************************************************************************)
\* the vertical inputs of every column are the horizontal inputs of the row
\* of the same number, and the scalar parameters are equal
AxesSwapped ==
    /\ est.epi_v = est.epi_h
    /\ est.out.val.dL_dv_v = est.out.val.dL_du_h
    /\ est.dt = est.ds /\ est.dv = est.du

\* pixel (y, x) of a WH_SIZE x WH_SIZE map
MapAt(blob, y, x) == BlobSample(blob, y * WH_SIZE + x)

\* C26: on square geometry, if the vertical EPI and difference blob of
\* every column x equal the horizontal EPI and difference blob of row x,
\* and dt = ds, dv = du, then Z_v[y][x] = Z_h[x][y] at every pixel.
C26_VerticalIsTranspose ==
    (est.pc = "done" /\ AxesSwapped) =>
        /\ est.Z_h.exc = "none" /\ est.Z_v.exc = "none"
        /\ \A y \in 0..(WH_SIZE - 1), x \in 0..(WH_SIZE - 1) :
             MapAt(est.Z_v.val, y, x) = MapAt(est.Z_h.val, x, y)

\* both maps computed from the same inputs, and Z_h is not its own
\* transpose
C26_Witness ==
    /\ est.pc = "done" /\ AxesSwapped
    /\ est.Z_h.exc = "none" /\ est.Z_v.exc = "none"
    /\ \E y \in 0..(WH_SIZE - 1), x \in 0..(WH_SIZE - 1) :
         /\ MapAt(est.Z_h.val, y, x) # MapAt(est.Z_h.val, x, y)
         /\ MapAt(est.Z_v.val, y, x) # MapAt(est.Z_h.val, y, x)
         /\ MapAt(est.Z_h.val, y, x) # 0

\* with dt other than ds the maps are not transposes of each other
C26_OtherScaleWitness ==
    /\ est.pc = "done" /\ est.dt # est.ds
    /\ \E y \in 0..(WH_SIZE - 1), x \in 0..(WH_SIZE - 1) :
         MapAt(est.Z_v.val, y, x) # MapAt(est.Z_h.val, x, y)


(***************************************************************************)
(* The angular-difference volume read back by the disparity estimator:     *)
(* properties                                                              *)
(***************************************************************************)
\* d = round_half_div2(L[a+1][x] - L[a-1][x]) on channel c of an EPI of n
\* positions
AngularDiff(blob, n, a, x, c) ==
    HalfAwayFromZero(EpiSample(blob, n, a + 1, x, c)
                       - EpiSample(blob, n, a - 1, x, c))

\* row - BIAS_INT of the disparity estimator at (a, x) of a difference blob
DiffRead(blob, n, a, x) == BlobSample(blob, a * n + x)

\* every interior sample of the difference volumes decodes to f of the
\* angular difference of the EPI it was computed from
DiffVolumesDecodeTo(f(_)) ==
    /\ \A y \in 1..est.H, a \in 1..(est.A - 2), x \in 0..(est.W - 1) :
         DiffRead(est.out.val.dL_du_h[y], est.W, a, x)
           = f(AngularDiff(est.epi_h[y], est.W, a, x, est.channel))
    /\ \A x \in 1..est.W, a \in 1..(est.A - 2), y \in 0..(est.H - 1) :
         DiffRead(est.out.val.dL_dv_v[x], est.H, a, y)
           = f(AngularDiff(est.epi_v[x], est.H, a, y, est.channel))

SameDiff(d) == d

SaturatedDiff(d) == Min(d, Q_MAX)

\* C27 as stated: for every pair of stored samples L[a-1][x], L[a+1][x] at
\* an interior angular index, decoding the sample written into the
\* angular-difference volume returns exactly
\* d = round_half_div2(L[a+1][x] - L[a-1][x]), the d whose absolute value
\* was added to the confidence sum; the bias saturation alters no d.
C27_DiffDecodesExactly ==
    (est.pc = "conf" /\ est.A >= 3 /\ est.out.exc = "none")
      => DiffVolumesDecodeTo(SameDiff)

\* C27, amended: the decoded sample is min(d, 8388607); it is d for every
\* pair but L[a+1] = 16777215, L[a-1] = 0, where d = 8388608 is stored as
\* 8388607 while the confidence sum has added 8388608. With one interior
\* angular index (A = 3) the confidence is the saturated |d|.
C27_DiffDecodesSaturated ==
    (est.pc = "conf" /\ est.A >= 3 /\ est.out.exc = "none")
      => /\ DiffVolumesDecodeTo(SaturatedDiff)
         /\ \A y \in 1..est.H, a \in 1..(est.A - 2), x \in 0..(est.W - 1) :
              (DiffRead(est.out.val.dL_du_h[y], est.W, a, x)
                 # AngularDiff(est.epi_h[y], est.W, a, x, est.channel))
                => /\ EpiSample(est.epi_h[y], est.W, a + 1, x, est.channel)
                        = U24_MAX
                   /\ EpiSample(est.epi_h[y], est.W, a - 1, x, est.channel)
                        = 0
         /\ est.A = 3
              => \A y \in 1..est.H, x \in 0..(est.W - 1) :
                   BlobSample(est.out.val.C_h, (y - 1) * est.W + x)
                     = Min(abs_i32(AngularDiff(est.epi_h[y], est.W, 1, x,
                                               est.channel)), Q_MAX)

\* differences of both signs that need the rounding, read back unchanged
C27_Witness ==
    /\ est.pc = "conf" /\ est.by = "BM" /\ est.out.exc = "none"
    /\ \E y \in 1..est.H, a \in 1..(est.A - 2), x \in 0..(est.W - 1) :
         LET d == AngularDiff(est.epi_h[y], est.W, a, x, est.channel)
         IN  /\ d # 0
             /\ 2 * d # EpiSample(est.epi_h[y], est.W, a + 1, x, est.channel)
                          - EpiSample(est.epi_h[y], est.W, a - 1, x,
                                      est.channel)
             /\ DiffRead(est.out.val.dL_du_h[y], est.W, a, x) = d
    /\ \E x \in 1..est.W, a \in 1..(est.A - 2), y \in 0..(est.H - 1) :
         /\ AngularDiff(est.epi_v[x], est.H, a, y, est.channel) < 0
         /\ DiffRead(est.out.val.dL_dv_v[x], est.H, a, y)
              = AngularDiff(est.epi_v[x], est.H, a, y, est.channel)

\* the pair whose difference does not fit: d = 8388608 read back as 8388607
C27_SaturatedWitness ==
    /\ est.pc = "conf" /\ est.A >= 3 /\ est.out.exc = "none"
    /\ AngularDiff(est.epi_h[1], est.W, 1, 0, est.channel) = Q_MAX + 1
    /\ DiffRead(est.out.val.dL_du_h[1], est.W, 1, 0) = Q_MAX


(***************************************************************************)
(* png_folder_to_simulated_inputs.py : the six cycle-aligned streams       *)
(***************************************************************************)
CROP_W == 2          \* 64 in the source; width of the centre crop here

CROP_H == 2          \* 64 in the source

PAD_IF_SMALL == TRUE

MaxCaptures == 3     \* captures streamed here; the source lists 17

\* the first MaxCaptures names of the fixed capture ordering (4 v, 9 h, 4 v)
CAPTURE_ORDER ==
    SubSeq(<<"v_00.png", "v_01.png", "v_02.png", "v_03.png",
             "h_00.png", "h_01.png", "h_02.png", "h_03.png", "h_04.png",
             "h_05.png", "h_06.png", "h_07.png", "h_08.png",
             "v_05.png", "v_06.png", "v_07.png", "v_08.png">>,
           1, MaxCaptures)

\* len(CAPTURE_ORDER), which the sanity checks of main spell as 17
EXPECTED_CAPTURES == Len(CAPTURE_ORDER)

PRE_GAP_MIN == 0

PRE_GAP_MAX == 1     \* 4 in the source

POST_GAP_MIN == 0

POST_GAP_MAX == 1    \* 4 in the source

BETWEEN_CAP_GAP_MIN == 0

BETWEEN_CAP_GAP_MAX == 1   \* 16 in the source

\* None of first_valid_global_index and last_valid_global_index; the
\* indices are never negative
NoIndex == -1

\* a black image of the given size
BlackImage(w, h) == [size |-> <<w, h>>,
                     px |-> [y \in 0..(h - 1) |-> [x \in 0..(w - 1) |->
                               <<0, 0, 0>>]]]

center_crop_or_pad_rgb(img_rgb, out_w, out_h, pad_if_small) ==
    LET in_w == img_rgb.size[1]
        in_h == img_rgb.size[2]
        left == (in_w - out_w) \div 2
        top == (in_h - out_h) \div 2
        paste_x == (out_w - in_w) \div 2
        paste_y == (out_h - in_h) \div 2
    IN  IF in_w >= out_w /\ in_h >= out_h
        THEN Ret([size |-> <<out_w, out_h>>,
                  px |-> [y \in 0..(out_h - 1) |-> [x \in 0..(out_w - 1) |->
                            img_rgb.px[top + y][left + x]]]])
        ELSE IF ~pad_if_small THEN Raise("ValueError")
        ELSE Ret([size |-> <<out_w, out_h>>,
                  px |-> [y \in 0..(out_h - 1) |-> [x \in 0..(out_w - 1) |->
                            IF /\ x - paste_x \in 0..(in_w - 1)
                               /\ y - paste_y \in 0..(in_h - 1)
                            THEN img_rgb.px[y - paste_y][x - paste_x]
                            ELSE BlackImage(out_w, out_h).px[y][x]]]])

rgb888_to_word24(r, g, b) ==
    ((r % 256) * 65536) + ((g % 256) * 256) + (b % 256)

\* format(word24, "024b"): 24 characters, most significant bit first
format_024b(word24) ==
    [i \in 1..24 |-> IF (word24 \div (2 ^ (24 - i))) % 2 = 1 THEN "1" ELSE "0"]

\* "0" * 24
zero_bits_24 == [i \in 1..24 |-> "0"]

\* is_first and is_last of the raster scan
is_first(y, x) == y = 0 /\ x = 0

is_last_of_row(y, x) == x = CROP_W - 1

is_last(y, x) == y = CROP_H - 1 /\ x = CROP_W - 1

\* solf_bit of a valid cycle
solf_on_first(first_valid_global_index, first) ==
    IF first THEN "1" ELSE "0"

solf_bit_of(first_valid_global_index, first) ==
    IF first_valid_global_index = NoIndex THEN "1" ELSE "0"

\* eolf_stream[last_valid_global_index] = "1"
set_eolf_at_end(eolf_stream, last_valid_global_index) ==
    [eolf_stream EXCEPT ![Len(eolf_stream)] = "1"]

set_eolf(eolf_stream, last_valid_global_index) ==
    [eolf_stream EXCEPT ![last_valid_global_index + 1] = "1"]

\* one cycle appended to all six streams
append_cycle(tb, pixel_bits_24, valid_bit, soc_bit, eoc_bit, solf_bit, eolf_bit) ==
    [tb EXCEPT !.pixel_stream = Append(@, pixel_bits_24),
               !.valid_stream = Append(@, valid_bit),
               !.soc_stream = Append(@, soc_bit),
               !.eoc_stream = Append(@, eoc_bit),
               !.solf_stream = Append(@, solf_bit),
               !.eolf_stream = Append(@, eolf_bit)]

\* the number of "1" entries of a stream
count_ones(stream) == Len(SelectSeq(stream, LAMBDA b : b = "1"))

\* write_mif: the header fields and the content lines, address i at line i
write_mif(width, data_bits_list) ==
    [WIDTH |-> width, DEPTH |-> Len(data_bits_list),
     CONTENT |-> [addr \in 1..Len(data_bits_list) |->
                    <<addr - 1, data_bits_list[addr]>>]]

\* the folders tried: the size of the PNG files, the pixel of file k at
\* (x, y), and the files of CAPTURE_ORDER that are absent
PngFolders ==
    { [w |-> CROP_W, h |-> CROP_H, level |-> 1, missing |-> {}],
      [w |-> CROP_W + 2, h |-> CROP_H + 1, level |-> 40, missing |-> {}],
      [w |-> 1, h |-> 1, level |-> 255, missing |-> {}],
      [w |-> CROP_W + 1, h |-> 1, level |-> 7, missing |-> {}],
      [w |-> CROP_W, h |-> CROP_H, level |-> 1, missing |-> {"v_01.png"}] }

\* Image.open(path).convert("RGB") of file k of the folder
PngImage(folder, k) ==
    [size |-> <<folder.w, folder.h>>,
     px |-> [y \in 0..(folder.h - 1) |-> [x \in 0..(folder.w - 1) |->
               <<(folder.level * k + x) % 256,
                 (folder.level + 16 * y) % 256,
                 (3 * k + x * y) % 256>>]]]

TbInit ==
    \E folder \in PngFolders :
        cross = [pc |-> "start", folder |-> folder, exc |-> "none",
                 cap_idx |-> 0, n |-> 0, y |-> 0, x |-> 0,
                 pixel_stream |-> <<>>, valid_stream |-> <<>>,
                 soc_stream |-> <<>>, eoc_stream |-> <<>>,
                 solf_stream |-> <<>>, eolf_stream |-> <<>>,
                 first_valid_global_index |-> NoIndex,
                 last_valid_global_index |-> NoIndex,
                 soc_count |-> 0, eoc_count |-> 0, mif |-> <<>>]

TbRest == UNCHANGED <<codec, fx, box, est, fuse, fixq, epis, units>>

\* the check that every file of CAPTURE_ORDER exists
ValidateFolder ==
    /\ cross.pc = "start"
    /\ cross' = IF \E i \in 1..Len(CAPTURE_ORDER) :
                      CAPTURE_ORDER[i] \in cross.folder.missing
                THEN [cross EXCEPT !.pc = "raised",
                                   !.exc = "FileNotFoundError"]
                ELSE [cross EXCEPT !.pc = "loop"]
    /\ TbRest

\* between_gap = random.randint(...), for every capture but the first
DrawBetweenGap ==
    /\ cross.pc = "loop" /\ cross.cap_idx < Len(CAPTURE_ORDER)
    /\ \E between_gap \in BETWEEN_CAP_GAP_MIN..BETWEEN_CAP_GAP_MAX :
         cross' = [cross EXCEPT !.pc = "between",
                     !.n = IF cross.cap_idx # 0 THEN between_gap ELSE 0]
    /\ TbRest

\* one turn of the loop of append_invalid_cycles
AppendInvalidCycle ==
    /\ cross.pc \in {"between", "pre", "post"} /\ cross.n > 0
    /\ cross' = [append_cycle(cross, zero_bits_24, "0", "0", "0", "0", "0")
                   EXCEPT !.n = cross.n - 1]
    /\ TbRest

\* pre_gap = random.randint(PRE_GAP_MIN, PRE_GAP_MAX)
DrawPreGap ==
    /\ cross.pc = "between" /\ cross.n = 0
    /\ \E pre_gap \in PRE_GAP_MIN..PRE_GAP_MAX :
         cross' = [cross EXCEPT !.pc = "pre", !.n = pre_gap]
    /\ TbRest

\* the image of the capture, cropped or padded
CaptureImage(folder, cap_idx) ==
    center_crop_or_pad_rgb(PngImage(folder, cap_idx), CROP_W, CROP_H,
                           PAD_IF_SMALL)

LoadImage ==
    /\ cross.pc = "pre" /\ cross.n = 0
    /\ cross' = IF CaptureImage(cross.folder, cross.cap_idx).exc # "none"
                THEN [cross EXCEPT !.pc = "raised", !.exc = "ValueError"]
                ELSE [cross EXCEPT !.pc = "pixels", !.y = 0, !.x = 0]
    /\ TbRest

\* one turn of the raster scan; after the last pixel, the post gap is drawn
StreamPixel ==
    /\ cross.pc = "pixels"
    /\ \E post_gap \in POST_GAP_MIN..POST_GAP_MAX :
         LET rgb == CaptureImage(cross.folder, cross.cap_idx)
                      .val.px[cross.y][cross.x]
             bits24 == format_024b(rgb888_to_word24(rgb[1], rgb[2], rgb[3]))
             first == is_first(cross.y, cross.x)
             last == is_last(cross.y, cross.x)
             this_index == Len(cross.pixel_stream)
             soc_bit == IF first THEN "1" ELSE "0"
             eoc_bit == IF last THEN "1" ELSE "0"
             solf_bit == solf_bit_of(cross.first_valid_global_index, first)
             scan_done == cross.y = CROP_H - 1 /\ cross.x = CROP_W - 1
         IN  /\ (~scan_done) => post_gap = POST_GAP_MIN
             /\ cross' =
                  [append_cycle(cross, bits24, "1", soc_bit, eoc_bit,
                                solf_bit, "0")
                     EXCEPT !.soc_count = IF first THEN @ + 1 ELSE @,
                            !.eoc_count = IF last THEN @ + 1 ELSE @,
                            !.first_valid_global_index =
                                IF @ = NoIndex THEN this_index ELSE @,
                            !.last_valid_global_index = this_index,
                            !.x = IF cross.x = CROP_W - 1 THEN 0 ELSE @ + 1,
                            !.y = IF cross.x = CROP_W - 1 /\ ~scan_done
                                  THEN @ + 1 ELSE @,
                            !.pc = IF scan_done THEN "post" ELSE "pixels",
                            !.n = IF scan_done THEN post_gap ELSE 0]
    /\ TbRest

\* the end of one turn of the capture loop
NextCapture ==
    /\ cross.pc = "post" /\ cross.n = 0
    /\ cross' = [cross EXCEPT !.pc = "loop", !.cap_idx = @ + 1,
                              !.y = 0, !.x = 0]
    /\ TbRest

\* the sanity checks, the EOLF patch, the one-bit checks and the six files
WriteMifs ==
    /\ cross.pc = "loop" /\ cross.cap_idx = Len(CAPTURE_ORDER)
    /\ LET patched == set_eolf(cross.eolf_stream,
                               cross.last_valid_global_index)
       IN  cross' =
             IF \/ cross.soc_count # EXPECTED_CAPTURES
                \/ cross.eoc_count # EXPECTED_CAPTURES
                \/ cross.first_valid_global_index = NoIndex
                \/ cross.last_valid_global_index = NoIndex
             THEN [cross EXCEPT !.pc = "raised", !.exc = "ValueError"]
             ELSE IF \/ count_ones(cross.solf_stream) # 1
                     \/ count_ones(patched) # 1
             THEN [cross EXCEPT !.pc = "raised", !.exc = "ValueError",
                                !.eolf_stream = patched]
             ELSE [cross EXCEPT !.pc = "written", !.eolf_stream = patched,
                     !.mif = <<write_mif(24, cross.pixel_stream),
                               write_mif(1, cross.valid_stream),
                               write_mif(1, cross.soc_stream),
                               write_mif(1, cross.eoc_stream),
                               write_mif(1, cross.solf_stream),
                               write_mif(1, patched)>>]
    /\ TbRest

InitStream ==
    /\ TbInit
    /\ codec = Idle /\ fx = Idle /\ box = Idle /\ est = Idle /\ fuse = Idle
    /\ fixq = Idle /\ epis = Idle /\ units = Idle

NextStream ==
    \/ ValidateFolder
    \/ DrawBetweenGap
    \/ AppendInvalidCycle
    \/ DrawPreGap
    \/ LoadImage
    \/ StreamPixel
    \/ NextCapture
    \/ WriteMifs

SpecStream == InitStream /\ [][NextStream]_vars


(***************************************************************************)
(* The six streams: properties                                             *)
(***************************************************************************)
\* the 1-based cycles at which a stream holds "1", in increasing order
OnesAt(stream) ==
    SelectSeq([i \in 1..Len(stream) |-> i], LAMBDA i : stream[i] = "1")

\* cycle i carries no pixel: the word is 24 zero bits and no flag is set
InvalidCycle(i) ==
    /\ cross.valid_stream[i] = "0"
    /\ cross.pixel_stream[i] = [j \in 1..24 |-> "0"]
    /\ cross.soc_stream[i] = "0" /\ cross.eoc_stream[i] = "0"
    /\ cross.solf_stream[i] = "0" /\ cross.eolf_stream[i] = "0"

\* C28: after every appended cycle the six streams (pixel data, valid, SOC,
\* EOC, SOLF, EOLF) have the same length, and wherever valid is 0 the pixel
\* word is 24 zero bits and SOC, EOC, SOLF and EOLF are 0; this still holds
\* once EOLF has been patched in.
C28_CycleAligned ==
    /\ Len(cross.valid_stream) = Len(cross.pixel_stream)
    /\ Len(cross.soc_stream) = Len(cross.pixel_stream)
    /\ Len(cross.eoc_stream) = Len(cross.pixel_stream)
    /\ Len(cross.solf_stream) = Len(cross.pixel_stream)
    /\ Len(cross.eolf_stream) = Len(cross.pixel_stream)
    /\ \A i \in 1..Len(cross.pixel_stream) :
         /\ cross.valid_stream[i] \in {"0", "1"}
         /\ Len(cross.pixel_stream[i]) = 24
         /\ cross.valid_stream[i] = "0" => InvalidCycle(i)
    /\ cross.pc = "written"
         => \A f \in 1..6 :
              /\ cross.mif[f].DEPTH = Len(cross.pixel_stream)
              /\ Len(cross.mif[f].CONTENT) = Len(cross.pixel_stream)

\* the files are written with EOLF patched in, gap cycles follow the last
\* valid cycle, and a valid cycle carries a black pixel
C28_Witness ==
    /\ cross.pc = "written"
    /\ count_ones(cross.eolf_stream) = 1
    /\ cross.valid_stream[Len(cross.valid_stream)] = "0"
    /\ cross.valid_stream[1] = "0"
    /\ \E i \in 1..Len(cross.pixel_stream) :
         /\ cross.valid_stream[i] = "1"
         /\ cross.pixel_stream[i] = [j \in 1..24 |-> "0"]
    /\ \E i \in 1..Len(cross.pixel_stream) :
         cross.pixel_stream[i] # [j \in 1..24 |-> "0"]


\* the cycles that carry a pixel
ValidAt == OnesAt(cross.valid_stream)

\* pixels of one capture
CapturePixels == CROP_W * CROP_H

\* the word the raster scan emits for pixel j (0-based) of capture k (1-based)
CaptureWord(k, j) ==
    LET rgb == CaptureImage(cross.folder, k - 1)
                 .val.px[j \div CROP_W][j % CROP_W]
    IN  format_024b(rgb888_to_word24(rgb[1], rgb[2], rgb[3]))

\* SOC and EOC alternate, starting with SOC: the k-th EOC is not before the
\* k-th SOC and is before the next SOC
Alternate(S, E) ==
    /\ Len(E) <= Len(S) /\ Len(S) <= Len(E) + 1
    /\ \A k \in 1..Len(E) :
         /\ S[k] <= E[k]
         /\ k < Len(S) => E[k] < S[k + 1]

\* the k-th SOC opens CapturePixels consecutive valid cycles, which carry
\* the pixels of CAPTURE_ORDER[k] in raster order and end at the k-th EOC
CaptureRuns(S, E) ==
    /\ Len(S) <= Len(CAPTURE_ORDER)
    /\ \A k \in 1..Len(E) :
         /\ E[k] = S[k] + CapturePixels - 1
         /\ \A j \in 0..(CapturePixels - 1) :
              /\ cross.valid_stream[S[k] + j] = "1"
              /\ cross.pixel_stream[S[k] + j] = CaptureWord(k, j)
              /\ cross.soc_stream[S[k] + j] = "1" <=> j = 0
              /\ cross.eoc_stream[S[k] + j] = "1" <=> j = CapturePixels - 1
    /\ \A i \in 1..Len(cross.valid_stream) :
         cross.valid_stream[i] = "1"
           <=> \E k \in 1..Len(S) : i \in S[k]..(S[k] + CapturePixels - 1)

\* every cycle between an EOC and the next SOC is an invalid gap cycle
GapsBetween(S, E) ==
    \A k \in 1..Len(E) :
      k < Len(S) => \A i \in (E[k] + 1)..(S[k + 1] - 1) : InvalidCycle(i)

\* C29: the stream is the captures of CAPTURE_ORDER in order, each
\* CROP_W * CROP_H consecutive valid cycles; SOC is 1 exactly on the first
\* valid cycle of each capture and EOC exactly on the last; the written
\* streams hold one SOC and one EOC per capture of CAPTURE_ORDER (17 in the
\* source); SOC and EOC alternate starting with SOC; every cycle between an
\* EOC and the next SOC is an invalid gap cycle, whatever the gap lengths.
C29_CaptureFraming ==
    LET S == OnesAt(cross.soc_stream)
        E == OnesAt(cross.eoc_stream)
    IN  /\ Alternate(S, E)
        /\ CaptureRuns(S, E)
        /\ GapsBetween(S, E)
        /\ Len(S) = cross.soc_count /\ Len(E) = cross.eoc_count
        /\ cross.pc = "written"
             => /\ Len(S) = Len(CAPTURE_ORDER) /\ Len(E) = Len(CAPTURE_ORDER)
                /\ Len(ValidAt) = Len(CAPTURE_ORDER) * CapturePixels

\* written streams where one capture follows the previous one with no gap
\* and another follows after gap cycles, with images that differ
C29_Witness ==
    LET S == OnesAt(cross.soc_stream)
        E == OnesAt(cross.eoc_stream)
    IN  /\ cross.pc = "written"
        /\ Len(S) = Len(CAPTURE_ORDER) /\ Len(S) >= 3
        /\ S[2] = E[1] + 1
        /\ S[3] > E[2] + 1
        /\ CaptureWord(1, 1) # CaptureWord(2, 1)

\* SOLF is 1 on exactly the first valid cycle, if there is one
SolfOnFirstValid ==
    OnesAt(cross.solf_stream)
      = IF ValidAt = <<>> THEN <<>> ELSE <<ValidAt[1]>>

\* C30: in the written streams SOLF is 1 on exactly one cycle, the first
\* valid cycle, which is the cycle of the first SOC, and EOLF is 1 on exactly
\* one cycle, the last valid cycle, which is the cycle of the last EOC,
\* whatever the pre, post and between-capture gap lengths; no valid cycle
\* precedes SOLF or follows EOLF. While the stream is built SOLF is already
\* on the first valid cycle and EOLF is 0 everywhere.
C30_LightFieldFraming ==
    /\ SolfOnFirstValid
    /\ cross.pc \notin {"written", "raised"}
         => OnesAt(cross.eolf_stream) = <<>>
    /\ cross.pc = "written"
         => LET solf == OnesAt(cross.solf_stream)
                eolf == OnesAt(cross.eolf_stream)
                S == OnesAt(cross.soc_stream)
                E == OnesAt(cross.eoc_stream)
            IN  /\ Len(solf) = 1 /\ Len(eolf) = 1
                /\ solf[1] = S[1] /\ eolf[1] = E[Len(E)]
                /\ eolf[1] = ValidAt[Len(ValidAt)]
                /\ solf[1] = cross.first_valid_global_index + 1
                /\ eolf[1] = cross.last_valid_global_index + 1
                /\ \A i \in 1..Len(cross.valid_stream) :
                     (i < solf[1] \/ i > eolf[1]) => InvalidCycle(i)
                /\ cross.mif[5].CONTENT[solf[1]] = <<solf[1] - 1, "1">>
                /\ cross.mif[6].CONTENT[eolf[1]] = <<eolf[1] - 1, "1">>

\* written streams with gap cycles before SOLF, after EOLF and between two
\* captures
C30_Witness ==
    /\ cross.pc = "written"
    /\ OnesAt(cross.solf_stream)[1] > 1
    /\ OnesAt(cross.eolf_stream)[1] < Len(cross.eolf_stream)
    /\ OnesAt(cross.soc_stream)[2] > OnesAt(cross.eoc_stream)[1] + 1

\* written streams with no gap cycle at all: SOLF on cycle 0, EOLF on the
\* last cycle
C30_NoGapWitness ==
    /\ cross.pc = "written"
    /\ OnesAt(cross.solf_stream) = <<1>>
    /\ OnesAt(cross.eolf_stream) = <<Len(cross.eolf_stream)>>
    /\ Len(cross.eolf_stream) = Len(CAPTURE_ORDER) * CapturePixels

=============================================================================
